---- MODULE Spec2Model ----
(***************************************************************************)
(* A model of the array wrapper of ivy (src/ivy/data_classes/array/array.py)*)
(* over a small heap of Array objects, a store of native tensor storages   *)
(* and the global backend stack.                                           *)
(*                                                                         *)
(* A native tensor is a handle [lib, stor, lo, hi, dtype, dev, var]: the    *)
(* library that owns it, the storage it reads, the window lo..hi of that   *)
(* storage it covers, its element type, its device and whether it is       *)
(* gradient-tracked.  Two handles alias when they name the same storage.  *)
(***************************************************************************)
EXTENDS Integers, Sequences, FiniteSets, TLC

VARIABLES
    backend_stack,  \* ivy.utils.backend.handler.backend_stack, top is last
    arrays,         \* the heap: a sequence of Array objects, id = index
    store,          \* storage id -> the values held (<<>> when unused)
    exc,            \* the exception the last call raised, "" when it returned
    call,           \* the primitive call in flight through its wrapper chain
    conts,          \* the Containers alive: a sequence, id = index
    procs,          \* the threads, tests and loops in progress: id -> locals
    nested          \* the NestedArray objects alive: a sequence, id = index

vars == <<backend_stack, arrays, store, exc, call, conts, procs, nested>>

----------------------------------------------------------------------------
(* Bounds of the model.                                                    *)

NumArrays == 2      \* Array objects alive at once
MaxLen == 2         \* elements of a freshly made tensor
MaxStack == 2       \* depth of the backend stack

MaxStor == NumArrays + 1
\* Element values: tensors start as zeros, writes store 0 or 1.
Vals == {0, 1}

----------------------------------------------------------------------------
(* Backends, element types, devices.                                       *)

BackendNames == {"numpy", "torch", "paddle"}
DefaultBackend == "numpy"
Dtypes == {"int8", "float32"}
Devices == {"cpu", "gpu:0"}

\* Python's None for a cached field or an attribute never assigned, and a
\* value that is set.
None == <<>>
Some(v) == <<v>>
\* Python's None for _base (array ids start at 1).
NoBase == 0

\* No primitive call in flight.
NoCall ==
    [fn |-> "", given |-> <<>>, args |-> <<>>, depth |-> 0, phase |-> "idle",
     log |-> <<>>, backend |-> "", nested |-> FALSE]
\* state["backend"] may be None in a pickled state.
NoneBackend == "None"

\* numpy tensors live on the host only.
DevicesOf(b) == IF b = "numpy" THEN {"cpu"} ELSE Devices
\* numpy has no gradient-tracked tensors.
VariableBackends == BackendNames \ {"numpy"}
\* basic slicing returns an aliasing view in these libraries.
NativeViewBackends == {"numpy", "torch"}
\* paddle get_item casts these element types to float32 and back.
PaddleCastDtypes == {"int8"}

dtype_bits(d) == IF d = "int8" THEN 8 ELSE 32
promote_types(d1, d2) == IF dtype_bits(d1) >= dtype_bits(d2) THEN d1 ELSE d2

----------------------------------------------------------------------------
(* Sequences.                                                              *)

InSeq(x, s) == \E i \in 1 .. Len(s) : s[i] = x

\* s with positions lo..hi set to v.
WriteSeq(s, lo, hi, v) ==
    [i \in 1 .. Len(s) |-> IF lo <= i /\ i <= hi THEN v ELSE s[i]]

Zeros(n) == [i \in 1 .. n |-> 0]

\* A query is a slice <<lo, hi>>, 1-based and inclusive, of an n-element array.
Queries(n) == {q \in (1 .. n) \X (1 .. n) : q[1] <= q[2]}
AllQueries == Queries(MaxLen)

----------------------------------------------------------------------------
(* Native tensors.                                                         *)

Tensor(lib, stor, lo, hi, dtype, dev, var) ==
    [lib |-> lib, stor |-> stor, lo |-> lo, hi |-> hi,
     dtype |-> dtype, dev |-> dev, var |-> var]

NumEl(t) == t.hi - t.lo + 1

\* The values a tensor reads from storage st.
ValueIn(st, t) == SubSeq(st[t.stor], t.lo, t.hi)

\* The window q of tensor t, aliasing t's storage.
Window(t, q) == [t EXCEPT !.lo = t.lo + q[1] - 1, !.hi = t.lo + q[2] - 1]

\* Descriptions of the tensors a caller can make afresh in a library.
FreshTensors ==
    {d \in [lib : BackendNames, dtype : Dtypes, dev : Devices, var : BOOLEAN] :
        /\ d.dev \in DevicesOf(d.lib)
        /\ d.var => d.lib \in VariableBackends}

UsedStor(arrs) == {arrs[i]._data.stor : i \in DOMAIN arrs}

\* A storage no Array reads; FreshStor is the one an allocation takes.
FreeStor(arrs) == (1 .. MaxStor) \ UsedStor(arrs)
FreshStor(arrs) == CHOOSE s \in FreeStor(arrs) : \A r \in FreeStor(arrs) : s <= r

\* Storages no Array reads any more are reclaimed.
Collect(arrs, st) ==
    [s \in 1 .. MaxStor |-> IF s \in UsedStor(arrs) THEN st[s] ELSE <<>>]

----------------------------------------------------------------------------
(* The backend stack.                                                      *)

current_backend_str ==
    IF backend_stack = <<>> THEN "" ELSE backend_stack[Len(backend_stack)]

\* current_backend(x) for a native tensor x.
current_backend(t) ==
    IF backend_stack # <<>> THEN backend_stack[Len(backend_stack)] ELSE t.lib

\* current_backend() with no argument carrying identity.
current_backend_default ==
    IF backend_stack # <<>> THEN backend_stack[Len(backend_stack)]
    ELSE DefaultBackend

Push(stack, b) == Append(stack, b)
Pop(stack) == IF stack = <<>> THEN stack ELSE SubSeq(stack, 1, Len(stack) - 1)

----------------------------------------------------------------------------
(* Array objects.                                                          *)

\* ivy.dynamic_backend, the process-wide default of the flag.
ivy_dynamic_backend == TRUE

\* An object __new__ has made and __init__ has not yet filled.
BlankArray ==
    [_data |-> Tensor(DefaultBackend, 1, 1, 0, "int8", "cpu", FALSE),
     _size |-> None, _strides |-> None, _itemsize |-> None,
     _dtype |-> None, _device |-> None, _dev_str |-> None,
     backend |-> "", _backend |-> None,
     _dynamic_backend |-> ivy_dynamic_backend,
     _base |-> NoBase, _view_refs |-> <<>>, _manipulation_stack |-> <<>>]

\* What the introspection primitives derive from a native tensor.
ivy_dtype(t) == t.dtype
ivy_dev(t) == t.dev
ivy_itemsize(t) == dtype_bits(t.dtype) \div 8
ivy_strides(t) == <<ivy_itemsize(t)>>
shape_size(t) == NumEl(t)

\* ivy.current_backend_str() under a given stack.
backend_str(stack) == IF stack = <<>> THEN "" ELSE stack[Len(stack)]

\* ivy.is_native_array(x): decided by the backend current_backend(x) resolves.
is_native_array(stack, t) == stack = <<>> \/ stack[Len(stack)] = t.lib

\* Array._init, after the branch that binds _data.
_init(self, data, stack) ==
    [self EXCEPT !._data = data,
                 !._size = None, !._strides = None, !._itemsize = None,
                 !._dtype = None, !._device = None, !._dev_str = None,
                 !.backend = backend_str(stack),
                 !._dynamic_backend = ivy_dynamic_backend]

_view_attributes(self) ==
    [self EXCEPT !._base = NoBase, !._view_refs = <<>>,
                 !._manipulation_stack = <<>>]

\* Array.__init__ given the native tensor _init binds.
NewArray(data, stack) == _view_attributes(_init(BlankArray, data, stack))

\* handle_view_indexing: the bookkeeping of a view y of operand a by query q.
build_view(arrs, a, y, q) ==
    [arrs EXCEPT ![y]._base = a,
                 ![y]._manipulation_stack = Append(@, q),
                 ![a]._view_refs = Append(@, y)]

\* A view's data replayed from its base's data.
RECURSIVE Replay(_, _)
Replay(t, stack) ==
    IF stack = <<>> THEN t ELSE Replay(Window(t, Head(stack)), Tail(stack))

----------------------------------------------------------------------------
Init ==
    /\ backend_stack = <<>>
    /\ arrays = <<>>
    /\ store = [s \in 1 .. MaxStor |-> <<>>]
    /\ exc = ""
    /\ call = NoCall
    /\ conts = <<>>
    /\ procs = <<>>
    /\ nested = <<>>

set_backend(b) ==
    /\ Len(backend_stack) < MaxStack
    /\ backend_stack' = Push(backend_stack, b)
    /\ exc' = ""
    /\ UNCHANGED <<arrays, store>>
    /\ UNCHANGED <<call, conts, procs, nested>>

previous_backend ==
    /\ backend_stack' = Pop(backend_stack)
    /\ exc' = ""
    /\ UNCHANGED <<arrays, store>>
    /\ UNCHANGED <<call, conts, procs, nested>>

\* Array(data) for a native tensor or host array the caller has just made.
Construct(d, dev) ==
    /\ Len(arrays) < NumArrays
    /\ LET y == Len(arrays) + 1
           s == FreshStor(arrays)
       IN  IF is_native_array(backend_stack, d)
           THEN /\ dev = d.dev
                /\ arrays' = Append(arrays,
                      NewArray(Tensor(d.lib, s, 1, MaxLen, d.dtype, d.dev, d.var),
                               backend_stack))
                /\ store' = [store EXCEPT ![s] = Zeros(MaxLen)]
                /\ exc' = ""
           ELSE IF d.lib = "numpy"
           THEN \* an np.ndarray under another backend: ivy.asarray(data)._data
                /\ dev \in DevicesOf(current_backend_default)
                /\ arrays' = Append(arrays,
                      NewArray(Tensor(current_backend_default, s, 1, MaxLen,
                                      d.dtype, dev, FALSE), backend_stack))
                /\ store' = [store EXCEPT ![s] = Zeros(MaxLen)]
                /\ exc' = ""
           ELSE /\ dev = d.dev
                /\ exc' = "IvyException"
                /\ UNCHANGED <<arrays, store>>
    /\ UNCHANGED backend_stack
    /\ UNCHANGED <<call, conts, procs, nested>>

\* Array(data) for an existing Array.
ConstructFromArray(src) ==
    /\ Len(arrays) < NumArrays
    /\ src \in DOMAIN arrays
    /\ arrays' = Append(arrays, NewArray(arrays[src]._data, backend_stack))
    /\ exc' = ""
    /\ UNCHANGED <<backend_stack, store>>
    /\ UNCHANGED <<call, conts, procs, nested>>

\* The outcomes of the library's own basic slicing: a view that aliases the
\* operand's storage (TRUE) or a tensor with storage of its own (FALSE).
get_item_aliases(t) ==
    IF t.lib \in NativeViewBackends THEN {TRUE}
    ELSE IF t.dtype \in PaddleCastDtypes THEN {FALSE}
    ELSE BOOLEAN

\* Array.__getitem__ under handle_view_indexing: y = a[q].
GetItem(a, q, alias) ==
    /\ Len(arrays) < NumArrays
    /\ a \in DOMAIN arrays
    /\ q \in Queries(NumEl(arrays[a]._data))
    /\ alias \in get_item_aliases(arrays[a]._data)
    /\ LET t == arrays[a]._data
           y == Len(arrays) + 1
           s == FreshStor(arrays)
           ret == IF alias THEN Window(t, q)
                  ELSE [t EXCEPT !.stor = s, !.lo = 1, !.hi = q[2] - q[1] + 1]
       IN  IF current_backend(t) # t.lib
           THEN \* the resolved backend's get_item is given another library's tensor
                /\ exc' = "Exception"
                /\ UNCHANGED <<arrays, store>>
           ELSE /\ arrays' = build_view(
                      Append(arrays, NewArray(ret, backend_stack)), a, y, q)
                /\ store' = IF alias THEN store
                            ELSE [store EXCEPT ![s] = ValueIn(store, Window(t, q))]
                /\ exc' = ""
    /\ UNCHANGED backend_stack
    /\ UNCHANGED <<call, conts, procs, nested>>

\* The arrays reachable from those of frontier through view_refs have their
\* data recomputed from their base's data, bases before their views.
RECURSIVE Reconcile(_, _, _)
Reconcile(arrs, frontier, k) ==
    LET kids == {y \in DOMAIN arrs :
                    \E x \in frontier : InSeq(y, arrs[x]._view_refs)}
    IN  IF k = 0 \/ kids = {} THEN arrs
        ELSE Reconcile(
               [y \in DOMAIN arrs |->
                  IF y \in kids
                  THEN [arrs[y] EXCEPT !._data =
                          Replay(arrs[arrs[y]._base]._data,
                                 arrs[y]._manipulation_stack)]
                  ELSE arrs[y]],
               kids, k - 1)

\* The element type of ivy.ones_like(target) * val for a scalar val.
updates_dtype(t, vfloat) == IF vfloat THEN "float32" ELSE t.dtype

\* paddle scatter_nd(query, val, reduction="replace", out=self) followed by
\* inplace_update(out, ret): the new arrays and store.
paddle_scatter_replace(arrs, st, a, q, v, vfloat, stack) ==
    LET self == arrs[a]
        t == self._data
        ud == updates_dtype(t, vfloat)
        s == FreshStor(arrs)
    IN  IF dtype_bits(ud) > dtype_bits(t.dtype)
        THEN \* out = out.cast(updates.dtype): a native tensor of its own; the
             \* result is written into it and returned, self is not re-initialised
             LET wide == [t EXCEPT !.stor = s, !.lo = 1, !.hi = NumEl(t),
                                   !.dtype = ud]
                 st1 == [st EXCEPT ![s] =
                           WriteSeq(ValueIn(st, t), q[1], q[2], v)]
                 arrs1 == [arrs EXCEPT ![a]._data = wide]
             IN  <<arrs1, Collect(arrs1, st1)>>
        ELSE \* paddle.assign(val_native, x_native); x.data = x_native
             <<[arrs EXCEPT ![a] = _init(self, t, stack)],
               [st EXCEPT ![t.stor] =
                  WriteSeq(@, t.lo + q[1] - 1, t.lo + q[2] - 1, v)]>>

\* The scatter fallback of a backend whose code is specified only by the
\* contract: the full tensor is rebuilt and rebound, the caches are invalidated
\* and the views reconciled.
contract_scatter_replace(arrs, st, a, q, v) ==
    LET self == arrs[a]
        t == self._data
        s == FreshStor(arrs)
        full == [t EXCEPT !.stor = s, !.lo = 1, !.hi = NumEl(t)]
        st1 == [st EXCEPT ![s] = WriteSeq(ValueIn(st, t), q[1], q[2], v)]
        arrs1 == [arrs EXCEPT ![a]._data = full,
                              ![a]._size = None, ![a]._strides = None,
                              ![a]._itemsize = None, ![a]._dtype = None,
                              ![a]._device = None]
        arrs2 == Reconcile(arrs1, {a}, Len(arrs))
    IN  <<arrs2, Collect(arrs2, st1)>>

ivy_scatter_nd_replace(arrs, st, a, q, v, vfloat, stack) ==
    IF arrs[a]._data.lib = "paddle"
    THEN paddle_scatter_replace(arrs, st, a, q, v, vfloat, stack)
    ELSE contract_scatter_replace(arrs, st, a, q, v)

\* Array.__setitem__: a[q] = v for a scalar v (float when vfloat); native_raises
\* is whether the library's own indexed assignment raises.
SetItem(a, q, v, vfloat, native_raises) ==
    /\ a \in DOMAIN arrays
    /\ q \in Queries(NumEl(arrays[a]._data))
    /\ LET t0 == arrays[a]._data
           t == IF current_backend_str = "torch" THEN [t0 EXCEPT !.var = FALSE]
                ELSE t0
           arrs0 == [arrays EXCEPT ![a]._data = t]
       IN  IF current_backend(t) # t.lib
           THEN \* target = self.__getitem__(query) raises
                /\ arrays' = arrs0
                /\ store' = store
                /\ exc' = "Exception"
           ELSE IF ~native_raises
           THEN /\ arrays' = arrs0
                /\ store' = [store EXCEPT ![t.stor] =
                               WriteSeq(@, t.lo + q[1] - 1, t.lo + q[2] - 1, v)]
                /\ exc' = ""
           ELSE LET r == ivy_scatter_nd_replace(arrs0, store, a, q, v, vfloat,
                                                backend_stack)
                IN  /\ arrays' = [r[1] EXCEPT ![a]._dtype =
                                    Some(ivy_dtype(r[1][a]._data))]
                    /\ store' = r[2]
                    /\ exc' = ""
    /\ UNCHANGED backend_stack
    /\ UNCHANGED <<call, conts, procs, nested>>

\* A data setter that runs the whole constructor, view fields included.
DataSetter_reroots(a, d) ==
    /\ a \in DOMAIN arrays
    /\ LET s == FreshStor(arrays)
           arrs1 == [arrays EXCEPT ![a] =
                       _view_attributes(
                         _init(@, Tensor(d.lib, s, 1, MaxLen, d.dtype, d.dev, d.var),
                               backend_stack))]
       IN  IF is_native_array(backend_stack, d)
           THEN /\ arrays' = arrs1
                /\ store' = Collect(arrs1, [store EXCEPT ![s] = Zeros(MaxLen)])
                /\ exc' = ""
           ELSE /\ exc' = "IvyException"
                /\ UNCHANGED <<arrays, store>>
    /\ UNCHANGED backend_stack
    /\ UNCHANGED <<call, conts, procs, nested>>

\* The data setter, a.data = <a native tensor the caller has just made>.
DataSetter(a, d) ==
    /\ a \in DOMAIN arrays
    /\ LET s == FreshStor(arrays)
           arrs1 == [arrays EXCEPT ![a] =
                       _init(@, Tensor(d.lib, s, 1, MaxLen, d.dtype, d.dev, d.var),
                             backend_stack)]
       IN  IF is_native_array(backend_stack, d)
           THEN /\ arrays' = arrs1
                /\ store' = Collect(arrs1, [store EXCEPT ![s] = Zeros(MaxLen)])
                /\ exc' = ""
           ELSE /\ exc' = "IvyException"
                /\ UNCHANGED <<arrays, store>>
    /\ UNCHANGED backend_stack
    /\ UNCHANGED <<call, conts, procs, nested>>

\* _determine_backend_from_args(self): the backend of the array's own data.
determine_backend_from_args(self) == self._data.lib

\* A setter that turns the flag off without pinning a backend.
DynamicBackendSetter_unpinned(a, value, dev) ==
    /\ a \in DOMAIN arrays
    /\ value = FALSE
    /\ dev = arrays[a]._data.dev
    /\ arrays' = [arrays EXCEPT ![a]._dynamic_backend = value]
    /\ exc' = ""
    /\ UNCHANGED <<backend_stack, store>>
    /\ UNCHANGED <<call, conts, procs, nested>>

\* The dynamic_backend setter; dev is where ivy.array places the new tensor.
DynamicBackendSetter(a, value, dev) ==
    /\ a \in DOMAIN arrays
    /\ LET self == arrays[a]
           t == self._data
           cb == current_backend_default
           s == FreshStor(arrays)
           new == Tensor(cb, s, 1, NumEl(t), t.dtype, dev, FALSE)
           is_var == t.var /\ self._backend \notin {Some("numpy"), Some("jax")}
           arrs1 == [arrays EXCEPT
                       ![a]._data = [new EXCEPT !.var =
                                       is_var /\ cb \in VariableBackends],
                       ![a]._dynamic_backend = value]
       IN  IF value = FALSE
           THEN /\ dev = t.dev
                /\ arrays' = [arrays EXCEPT
                                ![a]._backend = Some(determine_backend_from_args(self)),
                                ![a]._dynamic_backend = value]
                /\ store' = store
                /\ exc' = ""
           ELSE IF self._backend = None
           THEN \* self._backend.is_variable: the attribute was never assigned
                /\ dev = t.dev
                /\ exc' = "AttributeError"
                /\ UNCHANGED <<arrays, store>>
           ELSE IF self._backend # Some(t.lib)
           THEN \* the pinned backend's to_numpy is given another library's tensor
                /\ dev = t.dev
                /\ exc' = "IvyException"
                /\ UNCHANGED <<arrays, store>>
           ELSE /\ dev \in DevicesOf(cb)
                /\ arrays' = arrs1
                /\ store' = Collect(arrs1, [store EXCEPT ![s] = ValueIn(store, t)])
                /\ exc' = ""
    /\ UNCHANGED backend_stack
    /\ UNCHANGED <<call, conts, procs, nested>>

\* A cached property read: field f is computed from _data when it is unset.
ReadInto(a, f, value) ==
    /\ a \in DOMAIN arrays
    /\ arrays' = [arrays EXCEPT ![a] =
                    IF @[f] = None THEN [@ EXCEPT ![f] = Some(value)] ELSE @]
    /\ exc' = ""
    /\ UNCHANGED <<backend_stack, store>>
    /\ UNCHANGED <<call, conts, procs, nested>>

dtype(a) == ReadInto(a, "_dtype", ivy_dtype(arrays[a]._data))
device(a) == ReadInto(a, "_device", ivy_dev(arrays[a]._data))
size(a) == ReadInto(a, "_size", shape_size(arrays[a]._data))
itemsize(a) == ReadInto(a, "_itemsize", ivy_itemsize(arrays[a]._data))
strides(a) == ReadInto(a, "_strides", ivy_strides(arrays[a]._data))

\* Array.__repr__: caches the device string, reads device and size.
Repr(a) ==
    /\ a \in DOMAIN arrays
    /\ LET self == arrays[a]
           t == self._data
           self1 == IF self._dev_str = None
                    THEN [self EXCEPT
                            !._device = IF @ = None THEN Some(ivy_dev(t)) ELSE @,
                            !._dev_str = IF self._device = None THEN Some(ivy_dev(t))
                                         ELSE self._device]
                    ELSE self
           backend == IF self.backend = "" THEN current_backend_default
                      ELSE self.backend
       IN  IF backend # t.lib
           THEN \* backend.to_numpy is given another library's tensor
                /\ arrays' = [arrays EXCEPT ![a] = self1]
                /\ exc' = "Exception"
           ELSE /\ arrays' = [arrays EXCEPT ![a] =
                                [self1 EXCEPT !._size =
                                   IF @ = None THEN Some(shape_size(t)) ELSE @]]
                /\ exc' = ""
    /\ UNCHANGED <<backend_stack, store>>
    /\ UNCHANGED <<call, conts, procs, nested>>

\* Unpickling: __new__ and then __setstate__(state) with state["backend"] = b
\* and state["data"] a native tensor d; array_raises is whether ivy.array
\* fails on the payload.
SetState(b, d, array_raises) ==
    /\ Len(arrays) < NumArrays
    /\ b \in BackendNames => Len(backend_stack) < MaxStack
    /\ LET recorded == b # NoneBackend /\ b # ""
           stack1 == IF recorded THEN Push(backend_stack, b) ELSE backend_stack
           s == FreshStor(arrays)
           y == Len(arrays) + 1
       IN  IF array_raises \/ ~is_native_array(stack1, d)
           THEN /\ backend_stack' = stack1
                /\ exc' = "Exception"
                /\ UNCHANGED <<arrays, store>>
           ELSE /\ backend_stack' = Pop(stack1)
                /\ arrays' = Append(arrays,
                      NewArray(Tensor(d.lib, s, 1, MaxLen, d.dtype, d.dev, d.var),
                               stack1))
                /\ store' = [store EXCEPT ![s] = Zeros(MaxLen)]
                /\ exc' = ""
    /\ UNCHANGED <<call, conts, procs, nested>>

StateBackends == BackendNames \cup {"", NoneBackend}
ArrayIds == 1 .. NumArrays

Next ==
    \/ \E b \in BackendNames : set_backend(b)
    \/ previous_backend
    \/ \E d \in FreshTensors, dev \in Devices : Construct(d, dev)
    \/ \E src \in ArrayIds : ConstructFromArray(src)
    \/ \E a \in ArrayIds, q \in AllQueries, alias \in BOOLEAN : GetItem(a, q, alias)
    \/ \E a \in ArrayIds, q \in AllQueries, v \in Vals, vfloat, nr \in BOOLEAN :
          SetItem(a, q, v, vfloat, nr)
    \/ \E a \in ArrayIds, d \in FreshTensors : DataSetter(a, d)
    \/ \E a \in ArrayIds, value \in BOOLEAN, dev \in Devices :
          DynamicBackendSetter(a, value, dev)
    \/ \E a \in ArrayIds : dtype(a)
    \/ \E a \in ArrayIds : device(a)
    \/ \E a \in ArrayIds : size(a)
    \/ \E a \in ArrayIds : itemsize(a)
    \/ \E a \in ArrayIds : strides(a)
    \/ \E a \in ArrayIds : Repr(a)
    \/ \E b \in StateBackends, d \in FreshTensors, r \in BOOLEAN : SetState(b, d, r)

Spec == Init /\ [][Next]_vars

----------------------------------------------------------------------------
(* Views and indexed writes: host tensors that are not gradient-tracked.   *)

PlainTensors == {d \in FreshTensors : d.dev = "cpu" /\ ~d.var}

NextView ==
    \/ \E d \in PlainTensors : Construct(d, "cpu")
    \/ \E a \in ArrayIds, q \in AllQueries, alias \in BOOLEAN : GetItem(a, q, alias)
    \/ \E a \in ArrayIds, q \in AllQueries, v \in Vals, vfloat, nr \in BOOLEAN :
          SetItem(a, q, v, vfloat, nr)

SpecView == Init /\ [][NextView]_vars

\* y is reached from x through view_refs in at most k steps.
RECURSIVE HasAncestor(_, _, _, _)
HasAncestor(arrs, y, x, k) ==
    /\ k > 0
    /\ arrs[y]._base # NoBase
    /\ \/ arrs[y]._base = x
       \/ HasAncestor(arrs, arrs[y]._base, x, k - 1)

\* Reading view y yields what its manipulation replayed on its base yields.
Consistent(arrs, st, y) ==
    ValueIn(st, arrs[y]._data) =
        ValueIn(st, Replay(arrs[arrs[y]._base]._data, arrs[y]._manipulation_stack))

\* Every cached field that is set equals the value derived from _data.
CachesCoherent(self) ==
    /\ self._dtype \in {None, Some(ivy_dtype(self._data))}
    /\ self._device \in {None, Some(ivy_dev(self._data))}
    /\ self._size \in {None, Some(shape_size(self._data))}
    /\ self._itemsize \in {None, Some(ivy_itemsize(self._data))}
    /\ self._strides \in {None, Some(ivy_strides(self._data))}

\* C1: when an indexed write x[q] = v returns, by the native path or by the
\* scatter fallback, every array reached from x through view_refs reads the
\* post-mutation values of its base.
C1_ViewConsistency ==
    [][\A a \in ArrayIds, q \in AllQueries, v \in Vals, vfloat, nr \in BOOLEAN :
          (SetItem(a, q, v, vfloat, nr) /\ exc' = "")
          => \A y \in DOMAIN arrays' :
                HasAncestor(arrays', y, a, NumArrays)
                => Consistent(arrays', store', y)]_vars

\* A view whose values differ from those of the window of its base it was
\* taken from.
C1_StaleView ==
    \E y \in DOMAIN arrays :
        /\ arrays[y]._base # NoBase
        /\ ~Consistent(arrays, store, y)

\* C4: when the native indexed assignment raises, __setitem__ returns without
\* an error, the same Array holds the assigned values in the window and its
\* old values elsewhere, its caches are coherent with the rebound _data, and
\* the views reached from it are reconciled.
C4_SetItemFallback ==
    [][\A a \in ArrayIds, q \in AllQueries, v \in Vals, vfloat \in BOOLEAN :
          SetItem(a, q, v, vfloat, TRUE)
          => /\ exc' = ""
             /\ ValueIn(store', arrays'[a]._data) =
                   WriteSeq(ValueIn(store, arrays[a]._data), q[1], q[2], v)
             /\ CachesCoherent(arrays'[a])
             /\ \A y \in DOMAIN arrays' :
                   HasAncestor(arrays', y, a, NumArrays)
                   => Consistent(arrays', store', y)]_vars

----------------------------------------------------------------------------
(* View bookkeeping: constructions, views, indexed writes, data-setter      *)
(* assignments and unpickles, over float32 host tensors.                    *)

BookTensors == {d \in PlainTensors : d.dtype = "float32"}

NextBook ==
    \/ \E d \in BookTensors : Construct(d, "cpu")
    \/ \E src \in ArrayIds : ConstructFromArray(src)
    \/ \E a \in ArrayIds, q \in AllQueries, alias \in BOOLEAN : GetItem(a, q, alias)
    \/ \E a \in ArrayIds, q \in AllQueries, v \in Vals, vfloat, nr \in BOOLEAN :
          SetItem(a, q, v, vfloat, nr)
    \/ \E a \in ArrayIds, d \in BookTensors : DataSetter(a, d)
    \/ \E d \in BookTensors, r \in BOOLEAN : SetState("", d, r)

SpecBook == Init /\ [][NextBook]_vars

\* A root: no base, no views, no recorded manipulation.
IsRoot(self) ==
    /\ self._base = NoBase
    /\ self._view_refs = <<>>
    /\ self._manipulation_stack = <<>>

\* The step made a new Array by construction or by unpickling.
Constructs ==
    \/ \E d \in BookTensors : Construct(d, "cpu")
    \/ \E src \in ArrayIds : ConstructFromArray(src)
    \/ \E d \in BookTensors, r \in BOOLEAN : SetState("", d, r)

BookInv ==
    /\ \A a \in DOMAIN arrays, b \in DOMAIN arrays :
          InSeq(b, arrays[a]._view_refs) <=> arrays[b]._base = a
    /\ \A a \in DOMAIN arrays :
          arrays[a]._base = NoBase => arrays[a]._manipulation_stack = <<>>

\* C2: a freshly constructed (or unpickled) Array is a root, and in every
\* state reached by constructions, view-producing reads, indexed writes,
\* data-setter assignments and unpickles, b is in a.view_refs exactly when
\* b.base is a, and every Array with base None has an empty
\* manipulation_stack.
C2_ViewBookkeeping ==
    /\ []BookInv
    /\ [][(Constructs /\ Len(arrays') > Len(arrays))
            => IsRoot(arrays'[Len(arrays')])]_vars

\* A view of a base that has since been written to.
C2_Witness ==
    \E a \in DOMAIN arrays, b \in DOMAIN arrays :
        /\ arrays[b]._base = a
        /\ arrays[b]._manipulation_stack # <<>>
        /\ InSeq(b, arrays[a]._view_refs)
        /\ \E i \in DOMAIN store[arrays[a]._data.stor] :
              store[arrays[a]._data.stor][i] = 1

----------------------------------------------------------------------------
(* The metadata caches of one Array under reads and under the operations    *)
(* that mutate or replace _data.                                            *)

SoloArrays == 1

MetaTensors == {d \in FreshTensors : ~d.var}

NextMeta ==
    \/ \E d \in MetaTensors :
          Len(arrays) < SoloArrays /\ Construct(d, d.dev)
    \/ \E a \in ArrayIds : dtype(a)
    \/ \E a \in ArrayIds : device(a)
    \/ \E a \in ArrayIds : size(a)
    \/ \E a \in ArrayIds : itemsize(a)
    \/ \E a \in ArrayIds : strides(a)
    \/ \E a \in ArrayIds, q \in AllQueries, vfloat, nr \in BOOLEAN :
          SetItem(a, q, 1, vfloat, nr)
    \/ \E a \in ArrayIds, d \in MetaTensors : DataSetter(a, d)
    \/ \E a \in ArrayIds, value \in BOOLEAN, dev \in Devices :
          DynamicBackendSetter(a, value, dev)

SpecMeta == Init /\ [][NextMeta]_vars

\* C3: every cached field of every Array is unset or equals the value derived
\* from the current _data, in every state reached by property reads,
\* __setitem__ calls, data-setter assignments and dynamic_backend assignments.
C3_CacheCoherence ==
    \A a \in DOMAIN arrays : CachesCoherent(arrays[a])

----------------------------------------------------------------------------
(* Unpickling under a backend stack that callers push and pop.             *)

NextPickle ==
    \/ \E b \in BackendNames : set_backend(b)
    \/ previous_backend
    \/ \E b \in StateBackends, d \in PlainTensors, r \in BOOLEAN : SetState(b, d, r)

SpecPickle == Init /\ [][NextPickle]_vars

\* C5: when __setstate__ returns, the backend stack (and so the active
\* backend) is what it was before the call, whether the state records a
\* backend name or an empty or None one.
C5_SetStateKeepsStack ==
    [][\A b \in StateBackends, d \in PlainTensors :
          (SetState(b, d, FALSE) /\ exc' = "")
          => backend_stack' = backend_stack]_vars

\* An Array restored from a state that records no backend.
C5_Restored ==
    \E a \in DOMAIN arrays : arrays[a].backend = "" /\ backend_stack = <<>>

\* C6: when reconstructing the Array from the payload raises, the backend
\* stack after the failed __setstate__ is what it was before the call.
C6_StackBalancedOnFailure ==
    [][\A b \in StateBackends, d \in PlainTensors, r \in BOOLEAN :
          (SetState(b, d, r) /\ exc' # "")
          => backend_stack' = backend_stack]_vars

----------------------------------------------------------------------------
(* The dynamic_backend flag of one Array while callers switch backends,     *)
(* write elements and assign new data.                                      *)

NextDyn ==
    \/ \E b \in BackendNames : set_backend(b)
    \/ previous_backend
    \/ \E d \in FreshTensors :
          Len(arrays) < SoloArrays /\ Construct(d, d.dev)
    \/ \E a \in ArrayIds, q \in AllQueries : SetItem(a, q, 1, FALSE, FALSE)
    \/ \E a \in ArrayIds, d \in FreshTensors : DataSetter(a, d)
    \/ \E a \in ArrayIds, value \in BOOLEAN, dev \in Devices :
          DynamicBackendSetter(a, value, dev)

SpecDyn == Init /\ [][NextDyn]_vars

\* C8: assigning False to dynamic_backend returns without an error, leaves
\* _data the same native tensor with the same contents, pins _backend to the
\* backend of the array's own data, and leaves the flag False.
C8_DynamicOffPinsInPlace ==
    [][\A a \in ArrayIds, dev \in Devices :
          DynamicBackendSetter(a, FALSE, dev)
          => /\ exc' = ""
             /\ arrays'[a]._data = arrays[a]._data
             /\ store' = store
             /\ arrays'[a]._backend = Some(arrays[a]._data.lib)
             /\ arrays'[a]._dynamic_backend = FALSE]_vars

\* An Array with the flag off, pinned to the backend of its data while
\* another backend is the active one, and holding a written element.
C8_Pinned ==
    \E a \in DOMAIN arrays :
        /\ arrays[a]._dynamic_backend = FALSE
        /\ arrays[a]._backend = Some(arrays[a]._data.lib)
        /\ current_backend_default # arrays[a]._data.lib
        /\ \E i \in 1 .. NumEl(arrays[a]._data) :
              ValueIn(store, arrays[a]._data)[i] = 1

\* C9: assigning True to dynamic_backend returns without an error in every
\* state, leaves _data a tensor of the now-current backend holding the values
\* it held before, and leaves the flag True.
C9_DynamicOnValid ==
    [][\A a \in ArrayIds, dev \in Devices :
          DynamicBackendSetter(a, TRUE, dev)
          => /\ exc' = ""
             /\ arrays'[a]._data.lib = current_backend_default
             /\ ValueIn(store', arrays'[a]._data) = ValueIn(store, arrays[a]._data)
             /\ arrays'[a]._dynamic_backend = TRUE]_vars

\* An Array with the flag on whose data another backend than the pinned one
\* holds, with a written element.
C9_Migrated ==
    \E a \in DOMAIN arrays :
        /\ arrays[a]._backend # None
        /\ arrays[a]._backend # Some(arrays[a]._data.lib)
        /\ arrays[a]._dynamic_backend = TRUE
        /\ \E i \in 1 .. NumEl(arrays[a]._data) :
              ValueIn(store, arrays[a]._data)[i] = 1

----------------------------------------------------------------------------
(* Construction from native tensors and from existing Arrays while callers  *)
(* switch backends.                                                         *)

NextConstruct ==
    \/ \E b \in BackendNames : set_backend(b)
    \/ previous_backend
    \/ \E d \in FreshTensors, dev \in Devices : Construct(d, dev)
    \/ \E src \in ArrayIds : ConstructFromArray(src)

SpecConstruct == Init /\ [][NextConstruct]_vars

\* C10: an Array constructed from an existing Array that records backend B
\* has backend B, and an Array constructed from a native tensor of B's
\* library while a backend is active has backend B, whatever backend is
\* active.
C10_ConstructionAdoptsBackend ==
    [][/\ \A src \in ArrayIds :
             (ConstructFromArray(src) /\ arrays[src].backend # "")
             => arrays'[Len(arrays')].backend = arrays[src].backend
       /\ \A d \in FreshTensors :
             (Construct(d, d.dev) /\ is_native_array(backend_stack, d)
                /\ backend_stack # <<>>)
             => arrays'[Len(arrays')].backend = d.lib]_vars

\* An Array labelled with another backend than the library of its data.
C10_Mislabelled ==
    \E a \in DOMAIN arrays :
        /\ arrays[a].backend # ""
        /\ arrays[a].backend # arrays[a]._data.lib

----------------------------------------------------------------------------
(* The backend label of Arrays under reads, views, writes, rendering and    *)
(* data-setter assignments while callers switch backends.                   *)

HeadQuery == <<1, 1>>

\* The backends callers switch between, and the tensors they hold.
SwitchedBackends == {"torch", "paddle"}
SwitchedTensors == {d \in BookTensors : d.lib \in SwitchedBackends}

NextIdentity ==
    \/ \E b \in SwitchedBackends : set_backend(b)
    \/ previous_backend
    \/ \E d \in SwitchedTensors :
          Len(arrays) < SoloArrays /\ Construct(d, "cpu")
    \/ \E a \in ArrayIds, alias \in BOOLEAN : GetItem(a, HeadQuery, alias)
    \/ \E a \in ArrayIds, nr \in BOOLEAN : SetItem(a, HeadQuery, 0, TRUE, nr)
    \/ \E a \in ArrayIds, d \in SwitchedTensors : DataSetter(a, d)
    \/ \E a \in ArrayIds : Repr(a)

SpecIdentity == Init /\ [][NextIdentity]_vars

\* The step is one of the operations other than a dynamic_backend assignment;
\* __repr__ reads the device and size properties.
KeepsIdentity ==
    \/ \E a \in ArrayIds, alias \in BOOLEAN : GetItem(a, HeadQuery, alias)
    \/ \E a \in ArrayIds, nr \in BOOLEAN : SetItem(a, HeadQuery, 0, TRUE, nr)
    \/ \E a \in ArrayIds, d \in SwitchedTensors : DataSetter(a, d)
    \/ \E a \in ArrayIds : Repr(a)

\* C7: a property read, __getitem__, __setitem__, __repr__ or a data-setter
\* assignment leaves the recorded backend of every existing Array unchanged,
\* whatever backend is active.
C7_BackendIdentityStable ==
    [][KeepsIdentity
        => \A a \in DOMAIN arrays :
              arrays[a].backend # "" => arrays'[a].backend = arrays[a].backend]_vars

----------------------------------------------------------------------------
(* Construction from every kind of value while callers switch backends.     *)

\* Values that are neither an Array, a native tensor nor an np.ndarray.
OtherKinds == {"list", "scalar", "str"}

\* An _init that assigns the backend fields before it looks at the value.
_init_assigns_first(self, kind, stack) ==
    [obj |-> [self EXCEPT !.backend = backend_str(stack),
                          !._dynamic_backend = ivy_dynamic_backend],
     exc |-> "IvyException"]

\* Array._init on a value of another kind: the else branch raises; obj is the
\* object as the raise leaves it.
_init_other(self, kind, stack) ==
    [obj |-> self, exc |-> "IvyException"]

\* Array(data) for a value of another kind.
ConstructOther(kind) ==
    /\ Len(arrays) < NumArrays
    /\ LET r == _init_other(BlankArray, kind, backend_stack)
       IN  /\ exc' = r.exc
           /\ arrays' = IF r.exc = "" THEN Append(arrays, _view_attributes(r.obj))
                        ELSE arrays
    /\ UNCHANGED <<backend_stack, store>>
    /\ UNCHANGED <<call, conts, procs, nested>>

NextKinds ==
    \/ \E b \in SwitchedBackends : set_backend(b)
    \/ previous_backend
    \/ \E d \in BookTensors : Construct(d, "cpu")
    \/ \E src \in ArrayIds : ConstructFromArray(src)
    \/ \E k \in OtherKinds : ConstructOther(k)

SpecKinds == Init /\ [][NextKinds]_vars

\* The value is a native tensor of the resolved backend or an np.ndarray.
AcceptedTensor(d) ==
    is_native_array(backend_stack, d) \/ d.lib = "numpy"

----------------------------------------------------------------------------
(* Wrapping the data of an existing Array again.                            *)

\* Array(a.data): the native tensor of an existing Array given to the
\* constructor.
Rewrap(a) ==
    /\ Len(arrays) < NumArrays
    /\ a \in DOMAIN arrays
    /\ LET t == arrays[a]._data
           s == FreshStor(arrays)
       IN  IF is_native_array(backend_stack, t)
           THEN /\ arrays' = Append(arrays, NewArray(t, backend_stack))
                /\ store' = store
                /\ exc' = ""
           ELSE IF t.lib = "numpy"
           THEN \* an np.ndarray under another backend: ivy.asarray(data)._data
                /\ arrays' = Append(arrays,
                      NewArray([t EXCEPT !.lib = current_backend_default,
                                         !.stor = s, !.lo = 1, !.hi = NumEl(t)],
                               backend_stack))
                /\ store' = [store EXCEPT ![s] = ValueIn(store, t)]
                /\ exc' = ""
           ELSE /\ exc' = "IvyException"
                /\ UNCHANGED <<arrays, store>>
    /\ UNCHANGED backend_stack
    /\ UNCHANGED <<call, conts, procs, nested>>

NextWrap ==
    \/ \E b \in SwitchedBackends : set_backend(b)
    \/ previous_backend
    \/ \E d \in BookTensors : Construct(d, "cpu")
    \/ \E a \in ArrayIds : SetItem(a, HeadQuery, 1, FALSE, FALSE)
    \/ \E a \in ArrayIds : Rewrap(a)
    \/ \E src \in ArrayIds : ConstructFromArray(src)

SpecWrap == Init /\ [][NextWrap]_vars

\* C12: Array(a.data) returns an Array whose data holds the values and the
\* element type of a.data, and Array(a) returns an Array whose data is a's
\* native tensor itself.
C12_WrapUnwrapRoundTrip ==
    [][/\ \A a \in ArrayIds :
             Rewrap(a)
             => /\ exc' = ""
                /\ Len(arrays') = Len(arrays) + 1
                /\ ValueIn(store', arrays'[Len(arrays')]._data) =
                      ValueIn(store, arrays[a]._data)
                /\ arrays'[Len(arrays')]._data.dtype = arrays[a]._data.dtype
       /\ \A src \in ArrayIds :
             ConstructFromArray(src)
             => /\ exc' = ""
                /\ arrays'[Len(arrays')]._data = arrays[src]._data]_vars

\* Two Arrays over one native tensor that holds a written element.
C12_Rewrapped ==
    \E a \in DOMAIN arrays, b \in DOMAIN arrays :
        /\ a # b
        /\ arrays[a]._data = arrays[b]._data
        /\ ValueIn(store, arrays[a]._data)[1] = 1

----------------------------------------------------------------------------
(* Pickling an existing Array and restoring it.                             *)

\* Array.__getstate__: the mapping it returns.
getstate(self) ==
    [data |-> self._data,
     backend |-> self.backend,
     device_str |-> ivy_dev(self._data)]

\* b.__setstate__(a.__getstate__()) for a new object b; array_raises is
\* whether ivy.array fails on a tensor of another library than the backend
\* it runs under.
Restore(a, array_raises) ==
    /\ array_raises \/ Len(arrays) < NumArrays
    /\ a \in DOMAIN arrays
    /\ LET self == arrays[a]
           \* __getstate__ reads self.device, which caches it
           arrs0 == [arrays EXCEPT ![a]._device =
                       IF @ = None THEN Some(ivy_dev(self._data)) ELSE @]
           state == getstate(self)
           t == state.data
           recorded == state.backend # ""
           stack1 == IF recorded THEN Push(backend_stack, state.backend)
                     ELSE backend_stack
           s == FreshStor(arrays)
           top == IF stack1 = <<>> THEN t.lib ELSE stack1[Len(stack1)]
           converted == [t EXCEPT !.lib = top, !.stor = s, !.lo = 1,
                                  !.hi = NumEl(t)]
           native == is_native_array(stack1, t)
       IN  /\ recorded => Len(backend_stack) < MaxStack
           /\ native => ~array_raises
           /\ t.lib = "numpy" => ~array_raises
           /\ IF array_raises
              THEN /\ backend_stack' = stack1
                   /\ arrays' = arrs0
                   /\ store' = store
                   /\ exc' = "Exception"
              ELSE /\ backend_stack' = Pop(stack1)
                   /\ arrays' = Append(arrs0,
                         NewArray(IF native THEN t ELSE converted, stack1))
                   /\ store' = IF native THEN store
                               ELSE [store EXCEPT ![s] = ValueIn(store, t)]
                   /\ exc' = ""
    /\ UNCHANGED <<call, conts, procs, nested>>

NextRestore ==
    \/ \E b \in SwitchedBackends : set_backend(b)
    \/ previous_backend
    \/ \E d \in BookTensors : Construct(d, "cpu")
    \/ \E src \in ArrayIds : ConstructFromArray(src)
    \/ \E a \in ArrayIds : SetItem(a, HeadQuery, 1, FALSE, FALSE)
    \/ \E a \in ArrayIds, r \in BOOLEAN : Restore(a, r)

SpecRestore == Init /\ [][NextRestore]_vars

\* C13: the state __getstate__ returns has exactly the fields data, backend
\* and device_str, and __setstate__ applied to a state that records a backend
\* name returns an Array whose data holds the payload's values and whose
\* backend is the recorded name.
C13_StateRoundTrip ==
    [][\A a \in ArrayIds, r \in BOOLEAN :
          (Restore(a, r) /\ arrays[a].backend # "")
          => /\ DOMAIN getstate(arrays[a]) = {"data", "backend", "device_str"}
             /\ exc' = ""
             /\ Len(arrays') = Len(arrays) + 1
             /\ ValueIn(store', arrays'[Len(arrays')]._data) =
                   ValueIn(store, arrays[a]._data)
             /\ arrays'[Len(arrays')].backend = arrays[a].backend]_vars

\* An Array restored under the backend its state records, holding a written
\* element.
C13_RestoredUnderRecorded ==
    \E a \in DOMAIN arrays, b \in DOMAIN arrays :
        /\ a < b
        /\ arrays[a]._device # None
        /\ arrays[b].backend = arrays[a].backend
        /\ arrays[b].backend # ""
        /\ arrays[b].backend # current_backend_default
        /\ ValueIn(store, arrays[b]._data)[1] = 1

----------------------------------------------------------------------------
(* The out write-back of the paddle backend.                               *)

\* paddle inplace_update(x, val) for an Array x and the data val_native of
\* val: the new arrays, the new store and the Array returned.
inplace_update(arrs, st, x, val_native, stack) ==
    LET x_native == arrs[x]._data
        s == FreshStor(arrs)
        same_shape == NumEl(val_native) = NumEl(x_native)
        recast == same_shape /\ x_native.dtype # val_native.dtype
        \* x_native.astype(val_native.dtype): a tensor with storage of its own
        x1 == IF ~same_shape THEN val_native
              ELSE IF recast
              THEN [x_native EXCEPT !.stor = s, !.lo = 1,
                                    !.hi = NumEl(x_native),
                                    !.dtype = val_native.dtype]
              ELSE x_native
        \* paddle.assign(val_native, x_native)
        st1 == IF ~same_shape THEN st
               ELSE IF recast
               THEN [st EXCEPT ![s] = ValueIn(st, val_native)]
               ELSE [st EXCEPT ![x1.stor] =
                       [k \in DOMAIN @ |->
                          IF k \in x1.lo .. x1.hi
                          THEN ValueIn(st, val_native)[k - x1.lo + 1]
                          ELSE @[k]]]
        \* x.data = x_native
        arrs1 == [arrs EXCEPT ![x] = _init(@, x1, stack)]
    IN  [arrs |-> arrs1, st |-> Collect(arrs1, st1), ret |-> x, exc |-> ""]

\* The write-back of a call with out = x whose result is held by v.
InplaceUpdate(x, v) ==
    /\ x \in DOMAIN arrays
    /\ v \in DOMAIN arrays
    /\ x # v
    /\ arrays[x]._data.lib = "paddle"
    /\ arrays[v]._data.lib = "paddle"
    /\ current_backend(arrays[x]._data) = "paddle"
    /\ LET r == inplace_update(arrays, store, x, arrays[v]._data, backend_stack)
       IN  /\ arrays' = r.arrs
           /\ store' = r.st
           /\ exc' = r.exc
    /\ UNCHANGED backend_stack
    /\ UNCHANGED <<call, conts, procs, nested>>

OutTensors == {d \in PlainTensors : d.lib = "paddle"}

NextOut ==
    \/ set_backend("paddle")
    \/ previous_backend
    \/ \E d \in OutTensors : Construct(d, "cpu")
    \/ \E a \in ArrayIds, q \in AllQueries, alias \in BOOLEAN : GetItem(a, q, alias)
    \/ \E a \in ArrayIds : SetItem(a, HeadQuery, 1, FALSE, FALSE)
    \/ \E x \in ArrayIds, v \in ArrayIds : InplaceUpdate(x, v)

SpecOut == Init /\ [][NextOut]_vars

\* C14: a write-back into out = x of a result whose shape differs from x's
\* fails with a shape-mismatch error and leaves x's data, shape and values as
\* they were.
C14_OutShapeChecked ==
    [][\A x \in ArrayIds, v \in ArrayIds :
          (InplaceUpdate(x, v)
             /\ NumEl(arrays[v]._data) # NumEl(arrays[x]._data))
          => /\ exc' = "ShapeMismatchError"
             /\ arrays'[x]._data = arrays[x]._data
             /\ ValueIn(store', arrays'[x]._data) =
                   ValueIn(store, arrays[x]._data)]_vars

\* An out Array bound to its own one-element view's tensor.
C14_Rebound ==
    \E x \in DOMAIN arrays, v \in DOMAIN arrays :
        /\ arrays[v]._base = x
        /\ arrays[v]._manipulation_stack = <<HeadQuery>>
        /\ arrays[x]._data = arrays[v]._data
        /\ NumEl(arrays[x]._data) = 1

\* C15: a write-back into out = x of a result of x's shape writes the result
\* into the storage x's data already had, returns x itself and leaves x's
\* values equal to the result.
C15_OutWrittenInPlace ==
    [][\A x \in ArrayIds, v \in ArrayIds :
          (InplaceUpdate(x, v)
             /\ NumEl(arrays[v]._data) = NumEl(arrays[x]._data))
          => /\ exc' = ""
             /\ inplace_update(arrays, store, x, arrays[v]._data,
                               backend_stack).ret = x
             /\ Len(arrays') = Len(arrays)
             /\ arrays'[x]._data.stor = arrays[x]._data.stor
             /\ arrays'[x]._data.lo = arrays[x]._data.lo
             /\ arrays'[x]._data.hi = arrays[x]._data.hi
             /\ ValueIn(store', arrays'[x]._data) =
                   ValueIn(store, arrays[v]._data)]_vars

\* An out Array that took a written result of its own shape and element type
\* in the storage it had.
C15_WrittenBack ==
    \E x \in DOMAIN arrays, v \in DOMAIN arrays :
        /\ x # v
        /\ arrays[x]._data.stor # arrays[v]._data.stor
        /\ arrays[x]._data.dtype = arrays[v]._data.dtype
        /\ arrays[x]._base = NoBase /\ arrays[v]._base = NoBase
        /\ ValueIn(store, arrays[x]._data) = ValueIn(store, arrays[v]._data)
        /\ ValueIn(store, arrays[x]._data)[1] = 1
        /\ arrays[x]._data.lib = "paddle"

----------------------------------------------------------------------------
(* The wrapper chain of the searching primitives.                          *)

Primitives == {"argmax", "argmin", "nonzero", "where", "argwhere"}

\* The decorators above each primitive's definition, outermost first.
decorators_unwrap_outermost(fn) ==
    <<"handle_exceptions", "to_native_arrays_and_back", "handle_nestable",
      "handle_array_like_without_promotion", "handle_array_function">>

decorators_coerce_first(fn) ==
    <<"handle_exceptions", "handle_array_like_without_promotion",
      "handle_nestable", "handle_out_argument", "to_native_arrays_and_back",
      "handle_array_function">>

decorators(fn) ==
    IF fn = "nonzero"
    THEN <<"handle_exceptions", "handle_nestable",
           "handle_array_like_without_promotion", "to_native_arrays_and_back",
           "handle_array_function">>
    ELSE <<"handle_exceptions", "handle_nestable",
           "handle_array_like_without_promotion", "handle_out_argument",
           "to_native_arrays_and_back", "handle_array_function">>

\* The positional array arguments: where(condition, x1, x2), the others (x).
Arity(fn) == IF fn = "where" THEN 3 ELSE 1

\* The argument each body hands to current_backend: x1 for where, x otherwise.
resolves_from(fn) == IF fn = "where" THEN 2 ELSE 1

\* What a caller can pass for an argument: a plain scalar, an Array, a native
\* tensor, or a Container of Arrays.
ArgValues ==
    {[kind |-> "scalar", lib |-> ""]}
    \cup [kind : {"array", "native", "container"}, lib : {"torch", "paddle"}]

GivenArgs(fn) == [1 .. Arity(fn) -> ArgValues]

HasContainer(args) == \E i \in DOMAIN args : args[i].kind = "container"

\* handle_nestable: every Container argument replaced by its leaf Array.
leaves(args) ==
    [i \in DOMAIN args |->
        IF args[i].kind = "container" THEN [args[i] EXCEPT !.kind = "array"]
        ELSE args[i]]

\* handle_array_like_without_promotion: every plain scalar made an Array of
\* the backend in force.
array_like(args) ==
    [i \in DOMAIN args |->
        IF args[i].kind = "scalar"
        THEN [kind |-> "array", lib |-> current_backend_default]
        ELSE args[i]]

\* to_native_arrays_and_back, on the way in: every Array unwrapped.
to_native(args) ==
    [i \in DOMAIN args |->
        IF args[i].kind = "array" THEN [args[i] EXCEPT !.kind = "native"]
        ELSE args[i]]

\* The stage a decorator runs before the function it wraps, "" for none.
stage_before(d) ==
    CASE d = "handle_nestable" -> "nestable"
      [] d = "handle_array_like_without_promotion" -> "array_like"
      [] d = "to_native_arrays_and_back" -> "unwrap"
      [] OTHER -> ""

\* The stage a decorator runs after the function it wraps returned.
stage_after(d) ==
    CASE d = "to_native_arrays_and_back" -> "wrap"
      [] d = "handle_out_argument" -> "write_back"
      [] OTHER -> ""

Logged(log, st) == IF st = "" THEN log ELSE Append(log, st)

\* ivy.<fn>(*given) is called.
CallPrimitive(fn, given) ==
    /\ call.phase \in {"idle", "done"}
    /\ call' = [fn |-> fn, given |-> given, args |-> given, depth |-> 0,
                phase |-> "down", log |-> <<>>, backend |-> "",
                nested |-> FALSE]
    /\ exc' = ""
    /\ UNCHANGED <<backend_stack, arrays, store, conts, procs, nested>>

\* The next decorator of the chain runs its part before the wrapped function.
Enter ==
    /\ call.phase = "down"
    /\ call.depth < Len(decorators(call.fn))
    /\ LET d == decorators(call.fn)[call.depth + 1]
           log1 == Logged(call.log, stage_before(d))
       IN  call' =
             IF d = "handle_nestable" /\ HasContainer(call.args)
             THEN \* the whole wrapped function is called again on the leaves
                  [call EXCEPT !.given = leaves(call.args),
                               !.args = leaves(call.args),
                               !.depth = 0, !.log = log1, !.nested = TRUE]
             ELSE [call EXCEPT
                     !.args = CASE d = "handle_array_like_without_promotion"
                                     -> array_like(@)
                                [] d = "to_native_arrays_and_back"
                                     -> to_native(@)
                                [] OTHER -> @,
                     !.depth = @ + 1, !.log = log1]
    /\ UNCHANGED <<backend_stack, arrays, store, exc, conts, procs, nested>>

\* The body: current_backend(x).<fn>(...).
Invoke ==
    /\ call.phase = "down"
    /\ call.depth = Len(decorators(call.fn))
    /\ LET x == call.args[resolves_from(call.fn)]
       IN  call' = [call EXCEPT
                      !.backend = IF backend_stack # <<>>
                                  THEN backend_stack[Len(backend_stack)]
                                  ELSE IF x.kind = "scalar" THEN DefaultBackend
                                  ELSE x.lib,
                      !.log = Append(@, "invoke"),
                      !.phase = "up"]
    /\ UNCHANGED <<backend_stack, arrays, store, exc, conts, procs, nested>>

\* The innermost decorator still open runs its part after the wrapped
\* function returned.
Leave ==
    /\ call.phase = "up"
    /\ call.depth > 0
    /\ LET d == decorators(call.fn)[call.depth]
       IN  call' = [call EXCEPT
                      !.log = Logged(@, stage_after(d)),
                      !.depth = @ - 1,
                      !.phase = IF call.depth = 1 THEN "done" ELSE "up"]
    /\ UNCHANGED <<backend_stack, arrays, store, exc, conts, procs, nested>>

Idle == call.phase \in {"idle", "done"}

NextPipeline ==
    \/ \E b \in SwitchedBackends : Idle /\ set_backend(b)
    \/ Idle /\ previous_backend
    \/ \E fn \in Primitives : \E given \in GivenArgs(fn) : CallPrimitive(fn, given)
    \/ Enter
    \/ Invoke
    \/ Leave

SpecPipeline == Init /\ [][NextPipeline]_vars

Last(s) == s[Len(s)]

\* C16: whenever the unwrap stage or the backend primitive has just run, no
\* argument of the call is a Container, and if the call was given one the
\* nestable stage has run before.
C16_NestableBeforeUnwrap ==
    (call.log # <<>> /\ Last(call.log) \in {"unwrap", "invoke"})
    => /\ ~HasContainer(call.args)
       /\ \E j \in 1 .. Len(call.log) - 1 : call.log[j] = "nestable"

\* A call given a Container that reached the backend primitive on its leaves.
C16_Redirected ==
    /\ call.nested
    /\ call.fn = "where"
    /\ Last(call.log) = "invoke"
    /\ \A i \in DOMAIN call.args : call.args[i].kind = "native"

\* Whether the ranks of the stages run never decrease.
InOrder(ranks) ==
    \A i, j \in DOMAIN ranks : i < j => ranks[i] <= ranks[j]

StageOrderCoerceFirst(st) ==
    CASE st = "array_like" -> 1
      [] st = "nestable" -> 2
      [] st = "unwrap" -> 3
      [] st = "invoke" -> 4
      [] st = "wrap" -> 5
      [] st = "write_back" -> 6

StageOrderNestableFirst(st) ==
    CASE st = "nestable" -> 1
      [] st = "array_like" -> 2
      [] st = "unwrap" -> 3
      [] st = "invoke" -> 4
      [] st = "wrap" -> 5
      [] st = "write_back" -> 6

AllStages ==
    {"array_like", "nestable", "unwrap", "invoke", "wrap", "write_back"}

StagesRun == {call.log[i] : i \in DOMAIN call.log}

FirstIdentity(given) ==
    LET carriers == {i \in DOMAIN given : given[i].kind \in {"array", "native"}}
    IN  IF carriers = {} THEN DefaultBackend
        ELSE given[CHOOSE i \in carriers : \A j \in carriers : i <= j].lib

\* C18: with no backend pushed, a primitive's call resolves the backend of the
\* first of the call's arguments, left to right, that carries backend
\* identity, and the default backend when none does.
C18_ResolvesLeftToRight ==
    (call.phase \in {"up", "done"} /\ backend_stack = <<>>)
    => call.backend = FirstIdentity(call.given)

\* where resolved from x1 although condition carries another identity.
C18_ResolvedFromX1 ==
    /\ call.fn = "where"
    /\ call.phase = "done"
    /\ backend_stack = <<>>
    /\ call.given[1] = [kind |-> "native", lib |-> "torch"]
    /\ call.given[2] = [kind |-> "native", lib |-> "paddle"]
    /\ call.backend = "paddle"

----------------------------------------------------------------------------
(* Containers and the static methods that map a function over them.        *)

MaxConts == 3       \* Containers alive at once

\* The key chains a/, b/c and b/d of the leaves.
Paths == {<<"a">>, <<"b", "c">>, <<"b", "d">>}

KeyStructures == {{<<"a">>}, {<<"a">>, <<"b", "c">>}, Paths}

\* The key chains a caller can list: a leaf's, or that of the subtree b.
KeyChains == Paths \cup {<<"b">>}

LeafShape == <<1, 2>>

\* The Containers a caller builds: a leaf array of shape (1, 2) filled with v
\* at each path.
Containers ==
    {[p \in ks |-> [shape |-> LeafShape, val |-> v]] :
        ks \in KeyStructures, v \in Vals}

IsPrefix(k, p) == Len(k) <= Len(p) /\ SubSeq(p, 1, Len(k)) = k

\* The keys a Container holds under the key chain prefix.
keys(c, prefix) ==
    {p[Len(prefix) + 1] :
        p \in {q \in DOMAIN c : Len(q) > Len(prefix) /\ IsPrefix(prefix, q)}}

SameKeyStructure(c1, c2) ==
    \A prefix \in {<<>>, <<"a">>, <<"b">>} : keys(c1, prefix) = keys(c2, prefix)

\* ivy.moveaxis on a two-dimensional leaf.
ivy_moveaxis(x, source, destination) ==
    IF source = destination THEN x
    ELSE [x EXCEPT !.shape = <<x.shape[2], x.shape[1]>>]

Max(m, n) == IF m >= n THEN m ELSE n

\* ivy.heaviside on leaves, shapes broadcast.
ivy_heaviside(x1, x2) ==
    [shape |-> <<Max(x1.shape[1], x2.shape[1]), Max(x1.shape[2], x2.shape[2])>>,
     val |-> IF x1.val < 0 THEN 0 ELSE IF x1.val = 0 THEN x2.val ELSE 1]

\* The leaf function fn_name names, applied to the leaves xs and the
\* remaining arguments rest.
leaf_fn(fn_name, xs, rest) ==
    IF fn_name = "moveaxis" THEN ivy_moveaxis(xs[1], rest[1], rest[2])
    ELSE ivy_heaviside(xs[1], xs[2])

\* ContainerBase.cont_multi_map_in_function(fn_name, *cs, *rest, key_chains=,
\* to_apply=, prune_unapplied=, map_sequences=): the Container returned and the
\* exception raised.  key_chains is None or Some(a set of key chains).
cont_multi_map_in_function(fn_name, cs, rest, key_chains, to_apply, prune_unapplied, map_sequences) ==
    LET c1 == cs[1]
        listed(p) == \E k \in key_chains[1] : IsPrefix(k, p)
        applies(p) == key_chains = None \/ (listed(p) = to_apply)
        shared(p) == \A n \in DOMAIN cs : p \in DOMAIN cs[n]
        kept == {p \in DOMAIN c1 :
                    IF applies(p) THEN shared(p) \/ ~prune_unapplied
                    ELSE ~prune_unapplied}
    IN  IF \E p \in kept : applies(p) /\ ~shared(p)
        THEN [ret |-> <<>>, exc |-> "IvyException"]
        ELSE [ret |-> [p \in kept |->
                         IF applies(p)
                         THEN leaf_fn(fn_name,
                                      [n \in DOMAIN cs |-> cs[n][p]], rest)
                         ELSE c1[p]],
              exc |-> ""]

\* _ContainerWithManipulationExperimental.static_moveaxis
static_moveaxis_drops_key_chains(a, source, destination, key_chains, to_apply, prune_unapplied, map_sequences) ==
    cont_multi_map_in_function("moveaxis", <<a>>, <<source, destination>>,
                               None, TRUE, FALSE, FALSE)

static_moveaxis(a, source, destination, key_chains, to_apply, prune_unapplied, map_sequences) ==
    cont_multi_map_in_function("moveaxis", <<a>>, <<source, destination>>,
                               key_chains, to_apply, prune_unapplied,
                               map_sequences)

\* _ContainerWithManipulationExperimental.static_heaviside
static_heaviside_pruned(x1, x2, key_chains, to_apply, prune_unapplied, map_sequences) ==
    cont_multi_map_in_function("heaviside", <<x1, x2>>, <<>>,
                               Some({<<"a">>}), TRUE, TRUE, map_sequences)

static_heaviside(x1, x2, key_chains, to_apply, prune_unapplied, map_sequences) ==
    cont_multi_map_in_function("heaviside", <<x1, x2>>, <<>>,
                               key_chains, to_apply, prune_unapplied,
                               map_sequences)

ContIds == 1 .. MaxConts

\* ivy.Container(...) built by the caller.
NewContainer(c) ==
    /\ Len(conts) < MaxConts
    /\ conts' = Append(conts, c)
    /\ exc' = ""
    /\ UNCHANGED <<backend_stack, arrays, store, call, procs, nested>>

\* A call that returns the Container r.ret or raises r.exc.
Returns(r) ==
    /\ exc' = r.exc
    /\ conts' = IF r.exc = "" THEN Append(conts, r.ret) ELSE conts
    /\ UNCHANGED <<backend_stack, arrays, store, call, procs, nested>>

StaticMoveaxis(a, source, destination, key_chains, to_apply, prune_unapplied, map_sequences) ==
    /\ Len(conts) < MaxConts
    /\ a \in DOMAIN conts
    /\ Returns(static_moveaxis(conts[a], source, destination, key_chains,
                               to_apply, prune_unapplied, map_sequences))

\* a.moveaxis(source, destination)
Moveaxis(self, source, destination) ==
    /\ Len(conts) < MaxConts
    /\ self \in DOMAIN conts
    /\ Returns(static_moveaxis(conts[self], source, destination, None, TRUE,
                               FALSE, FALSE))

StaticHeaviside(x1, x2, key_chains, to_apply, prune_unapplied, map_sequences) ==
    /\ Len(conts) < MaxConts
    /\ x1 \in DOMAIN conts
    /\ x2 \in DOMAIN conts
    /\ Returns(static_heaviside(conts[x1], conts[x2], key_chains, to_apply,
                                prune_unapplied, map_sequences))

\* x1.heaviside(x2)
Heaviside(self, x2) ==
    /\ Len(conts) < MaxConts
    /\ self \in DOMAIN conts
    /\ x2 \in DOMAIN conts
    /\ Returns(static_heaviside(conts[self], conts[x2], None, TRUE, FALSE,
                                FALSE))

Axes == {0, 1}

KeyChainChoices == {None} \cup {Some({k}) : k \in KeyChains}

NextMultiMap ==
    \/ \E c \in Containers : NewContainer(c)
    \/ \E a \in ContIds, source, destination \in Axes,
          kc \in KeyChainChoices, ta, pu, ms \in BOOLEAN :
          StaticMoveaxis(a, source, destination, kc, ta, pu, ms)
    \/ \E a \in ContIds, source, destination \in Axes :
          Moveaxis(a, source, destination)
    \/ \E x1, x2 \in ContIds, kc \in KeyChainChoices, ta, pu, ms \in BOOLEAN :
          StaticHeaviside(x1, x2, kc, ta, pu, ms)
    \/ \E x1, x2 \in ContIds : Heaviside(x1, x2)

SpecMultiMap == Init /\ [][NextMultiMap]_vars

\* The inputs of a call are the Containers they were.
InputsKept == SubSeq(conts', 1, Len(conts)) = conts

\* C19: static_heaviside over two Containers of identical key structure, and
\* static_moveaxis over one, with the default key_chains return a new
\* Container whose keys at every level are the first input's, and leave the
\* inputs' key structures as they were.
C19_KeyStructurePreserved ==
    [][\A ta, pu, ms \in BOOLEAN :
          /\ \A x1, x2 \in ContIds :
                (StaticHeaviside(x1, x2, None, ta, pu, ms)
                   /\ SameKeyStructure(conts[x1], conts[x2]))
                => /\ exc' = ""
                   /\ Len(conts') = Len(conts) + 1
                   /\ SameKeyStructure(conts'[Len(conts')], conts[x1])
                   /\ DOMAIN conts'[Len(conts')] = DOMAIN conts[x1]
                   /\ InputsKept
          /\ \A a \in ContIds, source, destination \in Axes :
                StaticMoveaxis(a, source, destination, None, ta, pu, ms)
                => /\ exc' = ""
                   /\ Len(conts') = Len(conts) + 1
                   /\ SameKeyStructure(conts'[Len(conts')], conts[a])
                   /\ DOMAIN conts'[Len(conts')] = DOMAIN conts[a]
                   /\ InputsKept]_vars

\* Two Containers over all three key chains and the heaviside of them, which
\* differs from the first.
C19_Mapped ==
    /\ Len(conts) = 3
    /\ DOMAIN conts[1] = Paths
    /\ DOMAIN conts[2] = Paths
    /\ conts[3] = [p \in Paths |-> ivy_heaviside(conts[1][p], conts[2][p])]
    /\ conts[3] # conts[1]
    /\ conts[1] # conts[2]

\* C20: static_moveaxis with key_chains = [k], to_apply = True and
\* prune_unapplied = False returns a Container with moveaxis applied at the
\* paths under k and, at every other path, the very leaf of the input.
C20_KeyChainsFrame ==
    [][\A a \in ContIds, source, destination \in Axes, k \in KeyChains,
          ms \in BOOLEAN :
          StaticMoveaxis(a, source, destination, Some({k}), TRUE, FALSE, ms)
          => /\ exc' = ""
             /\ Len(conts') = Len(conts) + 1
             /\ DOMAIN conts'[Len(conts')] = DOMAIN conts[a]
             /\ \A p \in DOMAIN conts[a] :
                   conts'[Len(conts')][p] =
                      IF IsPrefix(k, p)
                      THEN ivy_moveaxis(conts[a][p], source, destination)
                      ELSE conts[a][p]
             /\ InputsKept]_vars

\* A Container and its image with the leaf at b/c moved and the others kept.
C20_OnePathMapped ==
    \E i, j \in DOMAIN conts :
        /\ i < j
        /\ DOMAIN conts[i] = Paths
        /\ DOMAIN conts[j] = Paths
        /\ conts[j][<<"b", "c">>].shape # conts[i][<<"b", "c">>].shape
        /\ conts[j][<<"a">>] = conts[i][<<"a">>]
        /\ conts[j][<<"b", "d">>] = conts[i][<<"b", "d">>]

----------------------------------------------------------------------------
(* Threads that unpickle Arrays over the one backend stack.                *)

MaxThreads == 2     \* threads unpickling at once

ThreadTensors == {d \in PlainTensors : d.lib \in SwitchedBackends}

\* A thread enters Array.__setstate__ with a state that records the backend
\* of its payload.
StartUnpickle(d) ==
    /\ Len(procs) < MaxThreads
    /\ procs' = Append(procs,
          [pc |-> "set_backend", backend |-> d.lib, data |-> d,
           saw |-> "", popped |-> ""])
    /\ UNCHANGED <<backend_stack, arrays, store, exc, call, conts, nested>>

\* ivy.set_backend(state["backend"])
T_set_backend_default(t) ==
    /\ t \in DOMAIN procs
    /\ procs[t].pc = "set_backend"
    /\ backend_stack' = Push(backend_stack, DefaultBackend)
    /\ procs' = [procs EXCEPT ![t].pc = "array"]
    /\ UNCHANGED <<arrays, store, exc, call, conts, nested>>

T_set_backend(t) ==
    /\ t \in DOMAIN procs
    /\ procs[t].pc = "set_backend"
    /\ backend_stack' = Push(backend_stack, procs[t].backend)
    /\ procs' = [procs EXCEPT ![t].pc = "array"]
    /\ UNCHANGED <<arrays, store, exc, call, conts, nested>>

\* ivy_array = ivy.array(state["data"]), under the backend now on top
T_array(t) ==
    /\ t \in DOMAIN procs
    /\ procs[t].pc = "array"
    /\ LET d == procs[t].data
           s == FreshStor(arrays)
       IN  IF is_native_array(backend_stack, d)
           THEN /\ arrays' = Append(arrays,
                      NewArray(Tensor(d.lib, s, 1, MaxLen, d.dtype, d.dev, d.var),
                               backend_stack))
                /\ store' = [store EXCEPT ![s] = Zeros(MaxLen)]
                /\ exc' = ""
                /\ procs' = [procs EXCEPT ![t].pc = "previous_backend",
                                          ![t].saw = backend_str(backend_stack)]
           ELSE /\ exc' = "Exception"
                /\ procs' = [procs EXCEPT ![t].pc = "raised",
                                          ![t].saw = backend_str(backend_stack)]
                /\ UNCHANGED <<arrays, store>>
    /\ UNCHANGED <<backend_stack, call, conts, nested>>

\* ivy.previous_backend()
T_previous_backend(t) ==
    /\ t \in DOMAIN procs
    /\ procs[t].pc = "previous_backend"
    /\ backend_stack' = Pop(backend_stack)
    /\ procs' = [procs EXCEPT ![t].pc = "done",
                              ![t].popped = backend_str(backend_stack)]
    /\ UNCHANGED <<arrays, store, exc, call, conts, nested>>

ThreadIds == 1 .. MaxThreads

NextThreads ==
    \/ \E d \in ThreadTensors : StartUnpickle(d)
    \/ \E t \in ThreadIds : T_set_backend(t)
    \/ \E t \in ThreadIds : T_array(t)
    \/ \E t \in ThreadIds : T_previous_backend(t)

SpecThreads == Init /\ [][NextThreads]_vars

\* Thread u has pushed backend b.
Pushed(u, b) == procs[u].backend = b /\ procs[u].pc # "set_backend"

\* C21: nothing isolates the threads: the backend a thread finds current while
\* it reconstructs its Array, and the entry it pops, is its own recorded
\* backend or one another thread has pushed (or none, once the others' pops
\* have emptied the stack), and a thread alone always finds its own.
C21_SharedStackNotIsolated ==
    \A t \in DOMAIN procs :
        /\ procs[t].pc \in {"previous_backend", "done", "raised"} =>
              \/ procs[t].saw = procs[t].backend
              \/ \E u \in DOMAIN procs \ {t} :
                    /\ Pushed(u, procs[t].saw) \/ procs[t].saw = ""
                    /\ procs[u].pc # "set_backend"
        /\ procs[t].pc = "done" =>
              \/ procs[t].popped = procs[t].backend
              \/ \E u \in DOMAIN procs \ {t} :
                    /\ Pushed(u, procs[t].popped) \/ procs[t].popped = ""
                    /\ procs[u].pc # "set_backend"

\* One thread failed to reconstruct its Array under the backend the other had
\* pushed, and the other popped an entry that was not its own.
C21_Interference ==
    \E t \in DOMAIN procs, u \in DOMAIN procs :
        /\ t # u
        /\ procs[t].pc = "raised"
        /\ procs[t].saw = procs[u].backend
        /\ procs[t].saw # procs[t].backend
        /\ procs[u].pc = "done"
        /\ procs[u].popped = procs[t].backend
        /\ procs[u].popped # procs[u].backend

----------------------------------------------------------------------------
(* The gradient tests and the backend stack.                               *)

GradientTests == {"test_value_and_grad", "test_jac", "test_grad"}

\* The values of backend_fw.current_backend_str() and of the parameter nth.
TestBackends == BackendNames \cup {"jax"}
Nths == {1, 2, 3}

\* The early return of each test.
skipped(test, fw, nth) ==
    \/ fw = "numpy"
    \/ test = "test_grad" /\ fw \in {"paddle", "jax"} /\ nth > 1

\* One comparison against the ground truth: the calls on the backend stack.
compare_with_ground_truth(fw) ==
    <<[op |-> "set_backend", b |-> fw],
      [op |-> "previous_backend", b |-> ""],
      [op |-> "set_backend", b |-> "tensorflow"]>>

\* The calls each test makes on the backend stack, in order.
test_body(test, fw, nth) ==
    IF skipped(test, fw, nth) THEN <<>>
    ELSE IF test = "test_jac"
    THEN compare_with_ground_truth(fw) \o compare_with_ground_truth(fw)
    ELSE compare_with_ground_truth(fw)

\* pytest calls a test; entry is the backend stack it finds.
StartTest(test, fw, nth) ==
    /\ IF procs = <<>> THEN TRUE ELSE procs[1].pc = "returned"
    /\ test # "test_grad" => nth = 1
    /\ procs' = <<[test |-> test, fw |-> fw, nth |-> nth, pc |-> "running",
                   at |-> 1, entry |-> backend_stack]>>
    /\ UNCHANGED <<backend_stack, arrays, store, exc, call, conts, nested>>

\* The running test makes its next call on the backend stack.
TestStep ==
    /\ procs # <<>>
    /\ procs[1].pc = "running"
    /\ LET body == test_body(procs[1].test, procs[1].fw, procs[1].nth)
           k == procs[1].at
       IN  /\ k <= Len(body)
           /\ IF body[k].op = "set_backend"
              THEN /\ Len(backend_stack) < MaxStack
                   /\ backend_stack' = Push(backend_stack, body[k].b)
              ELSE backend_stack' = Pop(backend_stack)
           /\ procs' = [procs EXCEPT ![1].at = k + 1]
    /\ UNCHANGED <<arrays, store, exc, call, conts, nested>>

\* The running test returns.
TestReturn ==
    /\ procs # <<>>
    /\ procs[1].pc = "running"
    /\ procs[1].at > Len(test_body(procs[1].test, procs[1].fw, procs[1].nth))
    /\ procs' = [procs EXCEPT ![1].pc = "returned"]
    /\ UNCHANGED <<backend_stack, arrays, store, exc, call, conts, nested>>

NextTests ==
    \/ \E test \in GradientTests, fw \in TestBackends, nth \in Nths :
          StartTest(test, fw, nth)
    \/ TestStep
    \/ TestReturn

SpecTests == Init /\ [][NextTests]_vars

\* C22: when a gradient test returns, the backend stack is the one the test
\* found when it started.
C22_TestsKeepStackBalanced ==
    (procs # <<>> /\ procs[1].pc = "returned")
    => backend_stack = procs[1].entry

\* A test that returned with the ground-truth backend left on the stack it
\* found.
C22_LeftPushed ==
    /\ procs # <<>>
    /\ procs[1].pc = "returned"
    /\ procs[1].test = "test_value_and_grad"
    /\ backend_stack = Append(procs[1].entry, "tensorflow")

----------------------------------------------------------------------------
(* The wrappers of the TensorFlow frontend.                                *)

\* The wrapped call returned; no call is in flight.
Return ==
    /\ call.phase = "done"
    /\ call' = NoCall
    /\ UNCHANGED <<backend_stack, arrays, store, exc, conts, procs, nested>>

\* What an argument can hold: a frontend tensor, a native array, an ivy.Array
\* or anything else, or a list of these.
TfLeaves == [kind : {"frontend", "native", "ivy", "other"}]

TfValues ==
    TfLeaves
    \cup [kind : {"list"}, items : {<<a>> : a \in TfLeaves}]
    \cup [kind : {"list"}, items : {<<a, b>> : a \in TfLeaves, b \in TfLeaves}]

\* _to_ivy_array(x) = _tf_frontend_array_to_ivy(_native_to_ivy_array(x))
_to_ivy_array(x) ==
    IF x.kind \in {"native", "frontend"} THEN [x EXCEPT !.kind = "ivy"] ELSE x

\* ivy.nested_map(x, _to_ivy_array, include_derived=True, shallow=False)
RECURSIVE nested_map_to_ivy_array(_)
nested_map_to_ivy_array(x) ==
    IF x.kind = "list"
    THEN [x EXCEPT !.items =
            [i \in DOMAIN x.items |-> nested_map_to_ivy_array(x.items[i])]]
    ELSE _to_ivy_array(x)

\* _inputs_to_ivy_arrays_tf(*args, **kwargs): the arguments fn is called with.
inputs_to_ivy_arrays(args, kwargs) ==
    LET has_out == "out" \in DOMAIN kwargs
        rest == [k \in DOMAIN kwargs \ {"out"} |-> kwargs[k]]
        ivy_args == [i \in DOMAIN args |-> nested_map_to_ivy_array(args[i])]
        ivy_rest == [k \in DOMAIN rest |-> nested_map_to_ivy_array(rest[k])]
    IN  [ivy_args |-> ivy_args,
         ivy_kwargs |-> [k \in DOMAIN kwargs |->
                           IF k = "out" THEN kwargs["out"] ELSE ivy_rest[k]]]

TfKwargs == UNION {[ks -> TfValues] : ks \in SUBSET {"x", "out"}}

TfArgs == {<<>>} \cup {<<a>> : a \in TfValues}

\* A function wrapped by inputs_to_ivy_arrays is called.
CallInputsToIvyArrays(args, kwargs) ==
    /\ call.phase = "idle"
    /\ LET r == inputs_to_ivy_arrays(args, kwargs)
       IN  call' = [fn |-> "inputs_to_ivy_arrays", phase |-> "done",
                    args |-> args, kwargs |-> kwargs,
                    ivy_args |-> r.ivy_args, ivy_kwargs |-> r.ivy_kwargs]
    /\ UNCHANGED <<backend_stack, arrays, store, exc, conts, procs, nested>>

NextInputs ==
    \/ \E args \in TfArgs, kwargs \in TfKwargs : CallInputsToIvyArrays(args, kwargs)
    \/ Return

SpecInputs == Init /\ [][NextInputs]_vars

\* Whether a frontend tensor or a native array is left anywhere in x.
RECURSIVE HasUnconverted(_)
HasUnconverted(x) ==
    IF x.kind = "list" THEN \E i \in DOMAIN x.items : HasUnconverted(x.items[i])
    ELSE x.kind \in {"frontend", "native"}

\* The kinds of the leaves of x other than frontend tensors and native arrays,
\* in place.
RECURSIVE Others(_)
Others(x) ==
    IF x.kind = "list" THEN [i \in DOMAIN x.items |-> Others(x.items[i])]
    ELSE IF x.kind \in {"frontend", "native"} THEN "ivy" ELSE x.kind

\* C23: the wrapped function is called with no frontend tensor and no native
\* array left in any positional argument or in any keyword argument, and with
\* every other value as it was passed.
C23_AllInputsConverted ==
    call.fn = "inputs_to_ivy_arrays"
    => /\ DOMAIN call.ivy_args = DOMAIN call.args
       /\ DOMAIN call.ivy_kwargs = DOMAIN call.kwargs
       /\ \A i \in DOMAIN call.args :
             /\ ~HasUnconverted(call.ivy_args[i])
             /\ Others(call.ivy_args[i]) = Others(call.args[i])
       /\ \A k \in DOMAIN call.kwargs :
             /\ ~HasUnconverted(call.ivy_kwargs[k])
             /\ Others(call.ivy_kwargs[k]) = Others(call.kwargs[k])

\* A call whose x was converted and whose out reached the function still a
\* frontend tensor.
C23_OutPassedThrough ==
    /\ call.fn = "inputs_to_ivy_arrays"
    /\ DOMAIN call.kwargs = {"x", "out"}
    /\ call.kwargs["x"] = [kind |-> "frontend"]
    /\ call.ivy_kwargs["x"] = [kind |-> "ivy"]
    /\ call.kwargs["out"] = [kind |-> "frontend"]
    /\ call.ivy_kwargs["out"] = [kind |-> "frontend"]

\* The keyword names and values of a raw_ops call.
KwargKeys == {"a", "b", "c"}

KwargValues == {"u", "v"}

RawKwargs == UNION {[ks -> KwargValues] : ks \in SUBSET KwargKeys}

\* to_update, in the order its items are visited: pairs <<key, val>> with
\* distinct keys.
ToUpdates ==
    {<<>>}
    \cup {<<p>> : p \in KwargKeys \X KwargKeys}
    \cup {s \in {<<p, q>> : p \in KwargKeys \X KwargKeys, q \in KwargKeys \X KwargKeys} :
            s[1][1] # s[2][1]}

\* temp_key = updated_kwargs[k]; del updated_kwargs[k]; updated_kwargs[val] = temp_key
rename_key(updated_kwargs, k, val) ==
    [j \in (DOMAIN updated_kwargs \ {k}) \cup {val} |->
        IF j = val THEN updated_kwargs[k] ELSE updated_kwargs[j]]

\* The loop of _update_kwarg_keys over to_update.items(), from item i on.
RECURSIVE update_from(_, _, _, _)
update_from(kwargs, to_update, updated_kwargs, i) ==
    IF i > Len(to_update) THEN updated_kwargs
    ELSE update_from(kwargs, to_update,
                     IF to_update[i][1] \in DOMAIN kwargs
                     THEN rename_key(updated_kwargs, to_update[i][1], to_update[i][2])
                     ELSE updated_kwargs,
                     i + 1)

\* _update_kwarg_keys(kwargs, to_update): starts from a deep copy of kwargs.
_update_kwarg_keys(kwargs, to_update) == update_from(kwargs, to_update, kwargs, 1)

\* A raw_ops alias is called with keyword arguments to rename.
CallUpdateKwargKeys(kwargs, to_update) ==
    /\ call.phase = "idle"
    /\ call' = [fn |-> "_update_kwarg_keys", phase |-> "done",
                kwargs |-> kwargs, to_update |-> to_update,
                updated_kwargs |-> _update_kwarg_keys(kwargs, to_update)]
    /\ UNCHANGED <<backend_stack, arrays, store, exc, conts, procs, nested>>

NextRename ==
    \/ \E kwargs \in RawKwargs, to_update \in ToUpdates :
          CallUpdateKwargKeys(kwargs, to_update)
    \/ Return

SpecRename == Init /\ [][NextRename]_vars

\* The items of to_update whose key is a key of kwargs.
Renamed(kwargs, to_update) ==
    {i \in DOMAIN to_update : to_update[i][1] \in DOMAIN kwargs}

\* C24: for every key k of both kwargs and to_update the result maps
\* to_update[k] to kwargs[k] and holds k no longer (unless k is itself the new
\* name of a renamed key); every other key of kwargs is kept with its value.
C24_RenameLosesNothing ==
    call.fn = "_update_kwarg_keys"
    => LET kw == call.kwargs
           tu == call.to_update
           res == call.updated_kwargs
           ren == Renamed(kw, tu)
       IN  /\ \A i \in ren :
                 /\ tu[i][2] \in DOMAIN res
                 /\ res[tu[i][2]] = kw[tu[i][1]]
                 /\ \/ tu[i][1] \notin DOMAIN res
                    \/ \E j \in ren : tu[j][2] = tu[i][1]
           /\ \A k \in DOMAIN kw \ {tu[i][1] : i \in ren} :
                 k \in DOMAIN res /\ res[k] = kw[k]

\* The chained rename a -> b, b -> c of {a: u, b: v}: the names are distinct
\* and free, yet the result is {c: u}.
C24_ChainedRename ==
    /\ call.fn = "_update_kwarg_keys"
    /\ call.kwargs = [k \in {"a", "b"} |-> IF k = "a" THEN "u" ELSE "v"]
    /\ call.to_update = <<(<<"a", "b">>), (<<"b", "c">>)>>
    /\ call.updated_kwargs = [k \in {"c"} |-> "u"]

\* The dtype values a caller can pass: None, a TensorFlow dtype, a NumPy
\* frontend dtype or a string.
TfNone == [kind |-> "none"]

TfDtypes == {TfNone} \cup [kind : {"tf", "np", "str"}, name : {"float32", "int32"}]

\* to_ivy_dtype(dtype)
to_ivy_dtype(dt) ==
    IF dt.kind \in {"none", "str"} THEN dt
    ELSE [kind |-> "ivy", name |-> dt.name]

\* The parameter lists of the functions handle_tf_dtype decorates.
FnSignatures ==
    {<<"dtype", "x", "name">>, <<"x", "dtype", "name">>, <<"x", "name", "dtype">>}

\* dtype_pos + 1: the place of "dtype" in the signature, counted from 1.
DtypePlace(params) == CHOOSE i \in DOMAIN params : params[i] = "dtype"

OtherValues == {"p", "q"}

ParamValues(n) == IF n = "dtype" THEN TfDtypes ELSE [kind : {"other"}, name : OtherValues]

\* The calls that bind every parameter at most once: some parameters by
\* position, some of the others by keyword.
TfCalls ==
    UNION {
      UNION {
        UNION {
            [params : {params},
             args : {a \in [1..n -> UNION {ParamValues(m) : m \in {"dtype", "x"}}] :
                        \A j \in 1..n : a[j] \in ParamValues(params[j])},
             kwargs : {kw \in [ks -> UNION {ParamValues(m) : m \in {"dtype", "x"}}] :
                        \A k \in ks : kw[k] \in ParamValues(k)}]
          : ks \in SUBSET {params[j] : j \in (n + 1)..Len(params)}}
        : n \in 0..Len(params)}
      : params \in FnSignatures}

\* _handle_tf_dtype(*args, dtype=None, **kwargs), written so that the last
\* positional argument alone is dropped when arguments follow dtype.
handle_tf_dtype_drops_last(params, args, kwargs) ==
    LET p == DtypePlace(params)
        rest == [k \in DOMAIN kwargs \ {"dtype"} |-> kwargs[k]]
        dt    == IF Len(args) >= p THEN args[p]
                 ELSE IF "dtype" \in DOMAIN kwargs THEN kwargs["dtype"] ELSE TfNone
        after == {params[j] : j \in (p + 1)..Len(args)}
        kw == [k \in after \cup DOMAIN rest |->
                 IF k \in DOMAIN rest THEN rest[k]
                 ELSE args[CHOOSE j \in (p + 1)..Len(args) : params[j] = k]]
        fn_args == IF Len(args) > p THEN SubSeq(args, 1, Len(args) - 1)
                   ELSE IF Len(args) = p THEN SubSeq(args, 1, Len(args) - 1)
                   ELSE args
    IN  [fn_args |-> fn_args,
         fn_kwargs |-> IF dt # TfNone
                       THEN [k \in DOMAIN kw \cup {"dtype"} |->
                               IF k = "dtype" THEN to_ivy_dtype(dt) ELSE kw[k]]
                       ELSE kw]

\* _handle_tf_dtype(*args, dtype=None, **kwargs): what fn is called with.
handle_tf_dtype(params, args, kwargs) ==
    LET p == DtypePlace(params)
        rest == [k \in DOMAIN kwargs \ {"dtype"} |-> kwargs[k]]
        dt    == IF Len(args) >= p THEN args[p]
                 ELSE IF "dtype" \in DOMAIN kwargs THEN kwargs["dtype"] ELSE TfNone
        after == {params[j] : j \in (p + 1)..Len(args)}
        kw == [k \in after \cup DOMAIN rest |->
                 IF k \in DOMAIN rest THEN rest[k]
                 ELSE args[CHOOSE j \in (p + 1)..Len(args) : params[j] = k]]
        fn_args == IF Len(args) > p THEN SubSeq(args, 1, p - 1)
                   ELSE IF Len(args) = p THEN SubSeq(args, 1, Len(args) - 1)
                   ELSE args
    IN  [fn_args |-> fn_args,
         fn_kwargs |-> IF dt # TfNone
                       THEN [k \in DOMAIN kw \cup {"dtype"} |->
                               IF k = "dtype" THEN to_ivy_dtype(dt) ELSE kw[k]]
                       ELSE kw]

\* A function decorated with handle_tf_dtype is called.
CallHandleTfDtype(c) ==
    /\ call.phase = "idle"
    /\ LET r == handle_tf_dtype(c.params, c.args, c.kwargs)
       IN  call' = [fn |-> "handle_tf_dtype", phase |-> "done",
                    params |-> c.params, args |-> c.args, kwargs |-> c.kwargs,
                    fn_args |-> r.fn_args, fn_kwargs |-> r.fn_kwargs]
    /\ UNCHANGED <<backend_stack, arrays, store, exc, conts, procs, nested>>

NextDtype ==
    \/ \E c \in TfCalls : CallHandleTfDtype(c)
    \/ Return

SpecDtype == Init /\ [][NextDtype]_vars

\* The values a call binds the parameters to: positional arguments by place,
\* keyword arguments by name.
Bound(params, args, kwargs) ==
    [n \in {params[j] : j \in DOMAIN args} \cup DOMAIN kwargs |->
        IF n \in DOMAIN kwargs THEN kwargs[n]
        ELSE args[CHOOSE j \in DOMAIN args : params[j] = n]]

\* C25: however dtype is passed, fn is called with every other parameter bound
\* to the value the caller gave it, with dtype bound to the ivy dtype of the
\* same name (a string as it is), and with no dtype argument at all when the
\* dtype is None or absent.
C25_DtypePassingTransparent ==
    call.fn = "handle_tf_dtype"
    => LET given == Bound(call.params, call.args, call.kwargs)
           got == Bound(call.params, call.fn_args, call.fn_kwargs)
           none == "dtype" \notin DOMAIN given \/ given["dtype"] = TfNone
       IN  /\ DOMAIN got \ {"dtype"} = DOMAIN given \ {"dtype"}
           /\ \A n \in DOMAIN given \ {"dtype"} : got[n] = given[n]
           /\ none <=> "dtype" \notin DOMAIN got
           /\ ~none =>
                 /\ got["dtype"].name = given["dtype"].name
                 /\ got["dtype"].kind =
                       IF given["dtype"].kind = "str" THEN "str" ELSE "ivy"
                 /\ "dtype" \in DOMAIN call.fn_kwargs

\* A call f(x, tf.int32, name) with dtype in the middle: fn gets x by place,
\* dtype and name by keyword.
C25_PositionalDtypeThenMore ==
    /\ call.fn = "handle_tf_dtype"
    /\ call.params = <<"x", "dtype", "name">>
    /\ Len(call.args) = 3
    /\ call.args[2] = [kind |-> "tf", name |-> "int32"]
    /\ Len(call.fn_args) = 1
    /\ DOMAIN call.fn_kwargs = {"dtype", "name"}
    /\ call.fn_kwargs["dtype"] = [kind |-> "ivy", name |-> "int32"]
    /\ call.fn_kwargs["name"] = call.args[3]

----------------------------------------------------------------------------
(* paddle scatter_nd as a function of its reduction and out.               *)

\* The places of a one-dimensional target and the values scattered.
ScatterPlaces == {1, 2}

ScatterIndices == {<<p>> : p \in ScatterPlaces} \cup (ScatterPlaces \X ScatterPlaces)

ScatterUpdates == {<<u>> : u \in {1, 2}} \cup ({1, 2} \X {1, 2})

ScatterOuts == {None} \cup {Some(t) : t \in {0, 3} \X {0, 3}}

ReductionNames == {"sum", "min", "max", "replace", "mean"}

Min(m, n) == IF m <= n THEN m ELSE n

\* The sum of the updates scattered to place p, from update i on.
RECURSIVE SumAt(_, _, _, _)
SumAt(indices, updates, p, i) ==
    IF i > Len(indices) THEN 0
    ELSE (IF indices[i] = p THEN updates[i] ELSE 0) + SumAt(indices, updates, p, i + 1)

\* _scatter_nd_replace(data, indices, updates, reduce): the tensors
\* paddle.put_along_axis can return; with reduce="assign" and several updates
\* for one place any of them may be the one kept.
_scatter_nd_replace(data, indices, updates, reduce) ==
    IF reduce = "add"
    THEN {[p \in DOMAIN data |-> data[p] + SumAt(indices, updates, p, 1)]}
    ELSE {r \in [DOMAIN data -> {data[p] : p \in DOMAIN data}
                                 \cup {updates[i] : i \in DOMAIN updates}] :
            \A p \in DOMAIN data :
               IF \E i \in DOMAIN indices : indices[i] = p
               THEN \E i \in DOMAIN indices : indices[i] = p /\ r[p] = updates[i]
               ELSE r[p] = data[p]}

\* scatter_nd(indices, updates, shape, reduction=..., out=...): the outcomes,
\* each an exception raised or a tensor returned.
scatter_nd(indices, updates, reduction, out) ==
    LET target_given == out # None
        zeros == [p \in ScatterPlaces |-> 0]
        target == IF target_given THEN out[1] ELSE zeros
        returned(rets) == {[raised |-> FALSE, ret |-> r] : r \in rets}
    IN  IF ~target_given
        THEN returned(_scatter_nd_replace(target, indices, updates, "assign"))
        ELSE IF reduction = "sum"
        THEN returned(_scatter_nd_replace(target, indices, updates, "add"))
        ELSE IF reduction = "min"
        THEN returned(_scatter_nd_replace(target, indices,
                 [i \in DOMAIN updates |-> Min(target[indices[i]], updates[i])],
                 "assign"))
        ELSE IF reduction = "max"
        THEN returned(_scatter_nd_replace(target, indices,
                 [i \in DOMAIN updates |-> Max(target[indices[i]], updates[i])],
                 "assign"))
        ELSE IF reduction = "replace"
        THEN returned(_scatter_nd_replace(target, indices, updates, "assign"))
        ELSE {[raised |-> TRUE, ret |-> zeros]}

\* scatter_nd is called and raises or returns.
CallScatterNd(indices, updates, reduction, out) ==
    /\ call.phase = "idle"
    /\ Len(indices) = Len(updates)
    /\ \E r \in scatter_nd(indices, updates, reduction, out) :
          call' = [fn |-> "scatter_nd", phase |-> "done",
                   indices |-> indices, updates |-> updates,
                   reduction |-> reduction, out |-> out,
                   raised |-> r.raised, ret |-> r.ret]
    /\ UNCHANGED <<backend_stack, arrays, store, exc, conts, procs, nested>>

NextScatter ==
    \/ \E indices \in ScatterIndices, updates \in ScatterUpdates,
          reduction \in ReductionNames, out \in ScatterOuts :
          CallScatterNd(indices, updates, reduction, out)
    \/ Return

SpecScatter == Init /\ [][NextScatter]_vars

\* C26: with or without out, scatter_nd raises exactly for a reduction other
\* than "sum", "min", "max" and "replace"; under "sum" each place holds what
\* it held (zero without out) plus the updates scattered to it, and under
\* "replace" each place scattered to holds one of its updates.
C26_ReductionHonoured ==
    call.fn = "scatter_nd"
    => LET base == IF call.out = None THEN [p \in ScatterPlaces |-> 0]
                   ELSE call.out[1]
           hit(p) == {i \in DOMAIN call.indices : call.indices[i] = p}
       IN  /\ call.raised <=> call.reduction \notin {"sum", "min", "max", "replace"}
           /\ (~call.raised /\ call.reduction = "sum") =>
                 \A p \in ScatterPlaces :
                    call.ret[p] = base[p] + SumAt(call.indices, call.updates, p, 1)
           /\ (~call.raised /\ call.reduction = "replace") =>
                 \A p \in ScatterPlaces :
                    IF hit(p) = {} THEN call.ret[p] = base[p]
                    ELSE \E i \in hit(p) : call.ret[p] = call.updates[i]

\* scatter_nd without out and with the reduction "mean" returned a tensor.
C26_UnknownReductionAccepted ==
    /\ call.fn = "scatter_nd"
    /\ call.out = None
    /\ call.reduction = "mean"
    /\ ~call.raised

----------------------------------------------------------------------------
(* NestedArrayBase: lists of arrays and the nested arrays built on them.    *)
(* nested holds the objects alive, a list [kind, items] or a nested array   *)
(* [kind, _data, _shape, _dtype, src]; _data is the id of a list, and src   *)
(* records what the nested array was built from.                            *)

MaxObjs == 3

\* The entry of a shape for a dimension in which the arrays differ (None).
NoneDim == -2

NestedDtypes == {"float32", "int32"}

\* The arrays a list can hold.
NestedItems == [shape : {<<4>>, <<6>>, <<2, 2>>}, dtype : NestedDtypes]

CallerLists == {<<a>> : a \in NestedItems} \cup (NestedItems \X NestedItems)

ReshapeShapes ==
    {<<1, 4>>, <<1, 2, 2>>, <<1, -1>>, <<2, 4>>, <<2, 2, 2>>, <<2, -1>>,
     <<2, 2, -1>>, <<2, -1, 2>>, <<3, 4>>}

RECURSIVE Prod(_)
Prod(sh) == IF sh = <<>> THEN 1 ELSE Head(sh) * Prod(Tail(sh))

\* _generate_shape raises: the arrays differ in their number of dimensions.
generate_shape_raises(items) ==
    \E j \in DOMAIN items : Len(items[j].shape) # Len(items[1].shape)

\* NestedArrayBase._generate_shape
_generate_shape(items) ==
    <<Len(items)>> \o
    [d \in 1..Len(items[1].shape) |->
        IF \A j \in DOMAIN items : items[j].shape[d] = items[1].shape[d]
        THEN items[1].shape[d] ELSE NoneDim]

\* ivy.astype(data[i], dtype) for every i
astype_all(items, dt) == [j \in DOMAIN items |-> [items[j] EXCEPT !.dtype = dt]]

\* The caller builds a list of arrays.
NewList(items) ==
    /\ Len(nested) < MaxObjs
    /\ nested' = Append(nested, [kind |-> "list", items |-> items])
    /\ exc' = ""
    /\ UNCHANGED <<backend_stack, arrays, store, call, conts, procs>>

\* NestedArrayBase.nested_array(data, dtype) for data the object src, a list
\* or a nested array; same_list is whether ivy.to_ivy hands back the list it
\* was given.
NestedArrayFrom(src, dt, same_list) ==
    /\ src \in DOMAIN nested
    /\ Len(nested) + (IF same_list THEN 1 ELSE 2) <= MaxObjs
    /\ (nested[src].kind = "NestedArray") => same_list
    /\ LET given == IF nested[src].kind = "list" THEN src ELSE nested[src]._data
           heap1 == IF same_list THEN nested
                    ELSE Append(nested, [kind |-> "list", items |-> nested[given].items])
           data == IF same_list THEN given ELSE Len(heap1)
           heap2 == [heap1 EXCEPT ![data].items = astype_all(@, dt)]
       IN  IF generate_shape_raises(heap2[data].items)
           THEN /\ nested' = heap2
                /\ exc' = "RuntimeError"
           ELSE /\ nested' = Append(heap2,
                      [kind |-> "NestedArray", _data |-> data,
                       _shape |-> _generate_shape(heap2[data].items),
                       _dtype |-> dt, src |-> src])
                /\ exc' = ""
    /\ UNCHANGED <<backend_stack, arrays, store, call, conts, procs>>

\* The loop of reshape from array i on: the items reached and the exception
\* that stopped it, if any.
RECURSIVE reshape_from(_, _, _)
reshape_from(items, shape, i) ==
    IF i > shape[1] THEN [items |-> items, exc |-> ""]
    ELSE LET arr == items[i]
             new_shape == [j \in 1..(Len(shape) - 1) |->
                             IF shape[j + 1] = -1 THEN arr.shape[j] ELSE shape[j + 1]]
         IN  IF \E j \in 2..Len(shape) : shape[j] = -1 /\ j - 1 > Len(arr.shape)
             THEN [items |-> items, exc |-> "IndexError"]
             ELSE IF Prod(new_shape) # Prod(arr.shape)
             THEN [items |-> items, exc |-> "Exception"]
             ELSE reshape_from([items EXCEPT ![i].shape = new_shape], shape, i + 1)

\* NestedArrayBase.reshape(shape) on the nested array n.
NestedReshape(n, shape) ==
    /\ n \in DOMAIN nested
    /\ nested[n].kind = "NestedArray"
    /\ IF shape[1] # nested[n]._shape[1]
       THEN /\ exc' = "AssertionError"
            /\ nested' = nested
       ELSE LET r == reshape_from(nested[nested[n]._data].items, shape, 1)
                heap1 == [nested EXCEPT ![nested[n]._data].items = r.items]
            IN  /\ exc' = r.exc
                /\ nested' = IF r.exc # "" THEN heap1
                             ELSE [heap1 EXCEPT ![n]._shape = _generate_shape(r.items)]
    /\ UNCHANGED <<backend_stack, arrays, store, call, conts, procs>>

NextNested ==
    \/ \E items \in CallerLists : NewList(items)
    \/ \E src \in 1..MaxObjs, dt \in NestedDtypes, same_list \in BOOLEAN :
          NestedArrayFrom(src, dt, same_list)
    \/ \E n \in 1..MaxObjs, shape \in ReshapeShapes : NestedReshape(n, shape)

SpecNested == Init /\ [][NextNested]_vars

\* The arrays an object holds.
Contents(heap, o) ==
    IF heap[o].kind = "list" THEN heap[o].items ELSE heap[heap[o]._data].items

\* C27: every nested array's shape is _generate_shape() of the arrays it
\* holds, and its first entry is their number.
C27_ShapeMatchesContents ==
    \A n \in DOMAIN nested :
       nested[n].kind = "NestedArray"
       => /\ ~generate_shape_raises(Contents(nested, n))
          /\ nested[n]._shape = _generate_shape(Contents(nested, n))
          /\ nested[n]._shape[1] = Len(Contents(nested, n))

\* A reshape stopped by an exception at the second array after it had reshaped
\* the first: the nested array holds a (2, 2) and a (6,) array.
C27_ReshapeRaisedPartWay ==
    /\ exc = "Exception"
    /\ \E n \in DOMAIN nested :
          /\ nested[n].kind = "NestedArray"
          /\ nested[n]._shape = <<2, NoneDim>>
          /\ Len(Contents(nested, n)) = 2
          /\ Contents(nested, n)[1].shape = <<2, 2>>
          /\ Contents(nested, n)[2].shape = <<6>>

\* C28: building a nested array from a list or from a nested array leaves
\* the arrays of that list or nested array as they were, and so does a later
\* reshape of the nested array built.
C28_InputUntouched ==
    [][/\ \A src \in 1..MaxObjs, dt \in NestedDtypes, same_list \in BOOLEAN :
             NestedArrayFrom(src, dt, same_list)
             => Contents(nested', src) = Contents(nested, src)
       /\ \A n \in 1..MaxObjs, shape \in ReshapeShapes :
             NestedReshape(n, shape)
             => Contents(nested', nested[n].src) = Contents(nested, nested[n].src)
      ]_vars

\* A nested array built from another one with a different dtype: both hold
\* the same list, and the source's arrays now have the new dtype.
C28_SourceRecast ==
    \E n \in DOMAIN nested, m \in DOMAIN nested :
       /\ nested[n].kind = "NestedArray"
       /\ nested[m].kind = "NestedArray"
       /\ nested[m].src = n
       /\ nested[m]._data = nested[n]._data
       /\ nested[m]._dtype # nested[n]._dtype
       /\ \A j \in DOMAIN Contents(nested, n) :
             Contents(nested, n)[j].dtype = nested[m]._dtype

----------------------------------------------------------------------------
(* tensorflow avg_pool2d and avg_pool3d: which branches a call takes.       *)

\* kernel as passed: an int, a sequence of one, or one entry per dimension.
PoolKernels(dims) ==
    {[is_int |-> TRUE, k |-> <<2>>], [is_int |-> FALSE, k |-> <<2>>],
     [is_int |-> FALSE, k |-> [d \in 1..dims |-> IF d = 1 THEN 2 ELSE 3]]}

\* padding: a string or explicit pairs.
PoolPaddings == {"SAME", "VALID", "explicit"}

\* divisor_override: None or a non-zero divisor.
PoolDivisors == {None, Some(2)}

\* kernel = [kernel] * dims, or [kernel[0]] * dims
pool_kernel(dims, kernel) ==
    IF kernel.is_int \/ Len(kernel.k) = 1 THEN [d \in 1..dims |-> kernel.k[1]]
    ELSE kernel.k

\* avg_pool2d (dims = 2) and avg_pool3d (dims = 3): the branches taken.
avg_pool(dims, kernel, padding, channels_first, count_include_pad, ceil_mode, divisor_override) ==
    LET manual_padding == padding = "explicit" \/ ceil_mode \/ count_include_pad
        not_divisor == divisor_override = None
    IN  [kernel |-> pool_kernel(dims, kernel),
         transposed |-> channels_first,
         manual_padding |-> manual_padding,
         padding |-> IF manual_padding THEN "VALID" ELSE padding,
         divided |-> divisor_override # None,
         rescaled |->
            IF dims = 2
            THEN (manual_padding /\ ~count_include_pad) \/ (ceil_mode /\ not_divisor)
            ELSE ((manual_padding /\ ~count_include_pad) \/ ceil_mode) /\ not_divisor]

\* avg_pool2d or avg_pool3d is called.
CallAvgPool(dims, kernel, padding, channels_first, count_include_pad, ceil_mode, divisor_override) ==
    /\ call.phase = "idle"
    /\ call' = [fn |-> IF dims = 2 THEN "avg_pool2d" ELSE "avg_pool3d",
                phase |-> "done", dims |-> dims,
                given |-> [kernel |-> kernel, padding |-> padding,
                           channels_first |-> channels_first,
                           count_include_pad |-> count_include_pad,
                           ceil_mode |-> ceil_mode,
                           divisor_override |-> divisor_override],
                ran |-> avg_pool(dims, kernel, padding, channels_first,
                                 count_include_pad, ceil_mode, divisor_override)]
    /\ UNCHANGED <<backend_stack, arrays, store, exc, conts, procs, nested>>

NextPool ==
    \/ \E dims \in {2, 3}, padding \in PoolPaddings, channels_first \in BOOLEAN,
          count_include_pad \in BOOLEAN, ceil_mode \in BOOLEAN,
          divisor_override \in PoolDivisors :
          \E kernel \in PoolKernels(dims) :
             CallAvgPool(dims, kernel, padding, channels_first,
                         count_include_pad, ceil_mode, divisor_override)
    \/ Return

SpecPool == Init /\ [][NextPool]_vars

\* C29: avg_pool2d rescales for the padded elements exactly when the padding
\* was applied manually with count_include_pad false, or ceil_mode is true,
\* and no divisor_override is given; that is, exactly when avg_pool3d does on
\* the same arguments.
C29_RescaleAsAvgPool3d ==
    call.fn = "avg_pool2d"
    => LET g == call.given
       IN  /\ call.ran.rescaled
              <=> /\ (call.ran.manual_padding /\ ~g.count_include_pad) \/ g.ceil_mode
                  /\ g.divisor_override = None
           /\ call.ran.rescaled =
                 avg_pool(3, g.kernel, g.padding, g.channels_first, g.count_include_pad,
                          g.ceil_mode, g.divisor_override).rescaled

\* avg_pool2d with explicit padding, count_include_pad false and a
\* divisor_override: the sum was divided by the divisor and rescaled as well.
C29_RescaledDespiteDivisor ==
    /\ call.fn = "avg_pool2d"
    /\ call.given.padding = "explicit"
    /\ ~call.given.count_include_pad
    /\ ~call.given.ceil_mode
    /\ call.given.divisor_override # None
    /\ call.ran.divided
    /\ call.ran.rescaled

----------------------------------------------------------------------------
(* torch histogram with axis given: the loop that copies the flattened      *)
(* counts ret into ret_shaped. procs holds the one call in progress with    *)
(* its locals; writes lists the assignments ret_shaped[index] = ret[i]      *)
(* made so far.                                                             *)

MaxRank == 3

MaxDim == 3

OutShapes == UNION {[1..n -> 1..MaxDim] : n \in 1..MaxRank}

\* (torch.tensor(out_shape) - 1).tolist()
last_index(out_shape) == [d \in DOMAIN out_shape |-> out_shape[d] - 1]

\* ret_shaped.data[tuple(index)] = ret[i]; reading ret past its end raises.
write_ret(h) ==
    IF h.i >= Prod(h.out_shape) THEN [h EXCEPT !.pc = "raised"]
    ELSE [h EXCEPT !.writes = Append(@, [index |-> h.index, i |-> h.i])]

\* index = torch.zeros(len(out_shape)); dim = 0; i = 0
HistStart(out_shape) ==
    /\ IF procs = <<>> THEN TRUE ELSE procs[1].pc = "done"
    /\ procs' = <<[pc |-> "first_if", out_shape |-> out_shape,
                   index |-> [d \in DOMAIN out_shape |-> 0], dim |-> 0, i |-> 0,
                   dim_full_flag |-> FALSE, writes |-> <<>>]>>
    /\ UNCHANGED <<backend_stack, arrays, store, exc, call, conts, nested>>

\* The if before the loop.
HistFirstIf ==
    /\ procs # <<>>
    /\ procs[1].pc = "first_if"
    /\ LET h == procs[1]
           h1 == IF h.index = last_index(h.out_shape) THEN write_ret(h) ELSE h
       IN  procs' = <<IF h1.pc = "raised" THEN h1 ELSE [h1 EXCEPT !.pc = "while"]>>
    /\ UNCHANGED <<backend_stack, arrays, store, exc, call, conts, nested>>

\* The test of the outer while and the first two statements of its body.
HistWhile ==
    /\ procs # <<>>
    /\ procs[1].pc = "while"
    /\ LET h == procs[1]
       IN  IF h.index # last_index(h.out_shape)
           THEN LET h1 == write_ret(h)
                IN  procs' = <<IF h1.pc = "raised" THEN h1
                               ELSE [h1 EXCEPT !.dim_full_flag = FALSE, !.pc = "carry"]>>
           ELSE procs' = <<[h EXCEPT !.pc = "last_if"]>>
    /\ UNCHANGED <<backend_stack, arrays, store, exc, call, conts, nested>>

\* The last if, written without its assignment.
HistLastIf_skips_write ==
    /\ procs # <<>>
    /\ procs[1].pc = "last_if"
    /\ procs' = <<[procs[1] EXCEPT !.pc = "done"]>>
    /\ UNCHANGED <<backend_stack, arrays, store, exc, call, conts, nested>>

\* The if after the loop.
HistLastIf ==
    /\ procs # <<>>
    /\ procs[1].pc = "last_if"
    /\ LET h == procs[1]
           h1 == IF h.index = last_index(h.out_shape) THEN write_ret(h) ELSE h
       IN  procs' = <<IF h1.pc = "raised" THEN h1 ELSE [h1 EXCEPT !.pc = "done"]>>
    /\ UNCHANGED <<backend_stack, arrays, store, exc, call, conts, nested>>

\* One test of the inner while: a carry, or the increment that ends the body.
\* index[dim] with dim past the last dimension raises.
HistCarry ==
    /\ procs # <<>>
    /\ procs[1].pc = "carry"
    /\ LET h == procs[1]
           d == h.dim + 1
       IN  IF d > Len(h.out_shape)
           THEN procs' = <<[h EXCEPT !.pc = "raised"]>>
           ELSE IF h.index[d] = h.out_shape[d] - 1
           THEN procs' = <<[h EXCEPT !.index[d] = 0, !.dim = h.dim + 1,
                                     !.dim_full_flag = TRUE]>>
           ELSE procs' = <<[h EXCEPT !.index[d] = @ + 1, !.i = h.i + 1,
                                     !.dim = IF h.dim_full_flag THEN 0 ELSE h.dim,
                                     !.pc = "while"]>>
    /\ UNCHANGED <<backend_stack, arrays, store, exc, call, conts, nested>>

HistSteps == HistFirstIf \/ HistWhile \/ HistCarry \/ HistLastIf

NextHist ==
    \/ \E out_shape \in OutShapes : HistStart(out_shape)
    \/ HistFirstIf
    \/ HistWhile
    \/ HistCarry
    \/ HistLastIf

\* The loop runs on once started: nothing else is scheduled in the call.
SpecHist == Init /\ [][NextHist]_vars /\ WF_vars(HistSteps)

\* The place of a multi-index in the flattened counts, dimension 0 varying
\* fastest: the sum of index[d] times the sizes of the dimensions before d.
RECURSIVE FlatPlace(_, _, _)
FlatPlace(index, out_shape, d) ==
    IF d > Len(index) THEN 0
    ELSE index[d] * Prod(SubSeq(out_shape, 1, d - 1)) + FlatPlace(index, out_shape, d + 1)

HistRunning == IF procs = <<>> THEN FALSE ELSE procs[1].pc # "done"

HistDone == IF procs = <<>> THEN FALSE ELSE procs[1].pc = "done"

AllOnes(out_shape) == \A d \in DOMAIN out_shape : out_shape[d] = 1

\* Every write made so far is in bounds and puts ret[i] at the multi-index
\* whose place is i.
WritesInPlace(h) ==
    /\ h.pc # "raised"
    /\ \A k \in DOMAIN h.writes :
          /\ h.writes[k].i < Prod(h.out_shape)
          /\ \A d \in DOMAIN h.out_shape : h.writes[k].index[d] < h.out_shape[d]
          /\ h.writes[k].i = FlatPlace(h.writes[k].index, h.out_shape, 1)

\* The loop wrote each multi-index exactly once, i going up by one per write.
C30_EachIndexWrittenOnce ==
    HistDone
    => LET h == procs[1]
       IN  /\ WritesInPlace(h)
           /\ Len(h.writes) = Prod(h.out_shape)
           /\ \A k \in DOMAIN h.writes : h.writes[k].i = k - 1

\* C30: the loop terminates for every out_shape, never reads ret or indexes
\* the counter out of bounds, and writes ret[i] at the multi-index whose place
\* (dimension 0 varying fastest) is i; unless every dimension of out_shape is
\* 1 it writes each multi-index exactly once, i going up by one per write, and
\* when every dimension is 1 it writes the single element twice, both times
\* from ret[0].
C30_OdometerCopiesAll ==
    /\ [](IF procs = <<>> THEN TRUE
          ELSE LET h == procs[1]
               IN  /\ WritesInPlace(h)
                   /\ IF AllOnes(h.out_shape)
                      THEN /\ Len(h.writes) <= 2
                           /\ h.pc = "done" => Len(h.writes) = 2
                      ELSE /\ \A k \in DOMAIN h.writes : h.writes[k].i = k - 1
                           /\ h.pc = "done" => Len(h.writes) = Prod(h.out_shape))
    /\ (HistRunning ~> HistDone)

\* The loop finished on the out_shape (2, 1, 3): six writes, the last at
\* (1, 0, 2).
C30_CopiedTwoByOneByThree ==
    /\ HistDone
    /\ procs[1].out_shape = <<2, 1, 3>>
    /\ Len(procs[1].writes) = 6
    /\ procs[1].writes[6].index = <<1, 0, 2>>
    /\ procs[1].writes[2].index = <<1, 0, 0>>

====
